---- MODULE Spec2Model ----
(***************************************************************************)
(* Model of the DirectShow capture input of libavdevice (dshow.c): the     *)
(* frame callback and its admission check, the packet queue, the reader    *)
(* dshow_read_packet with its two events, the play/pause control message   *)
(* and the open/close sequence of dshow_read_header / dshow_read_close.    *)
(***************************************************************************)
EXTENDS Integers, Naturals, Sequences, FiniteSets, TLC

(* ------------------------------ bounds -------------------------------- *)
MaxArrivals == 2
MaxBuffer == 4
MaxEvents == 1
MaxBatch == 3
MaxProbes == 6
MaxCloses == 2
MaxCreates == 2
MaxLookups == 2
MaxQueries == 2
MaxRanges == 3
MaxFullness == 110
ProbeBuffer == 100

(* ------------------------- program constants -------------------------- *)
\* an unsigned int is held as <<high half, low half>>, each below 2^16
HalfWord == 65536
ndropscores == 4

Streams == {0, 1}
\* a small frame, and one that fills the whole buffer
FrameSizes == {1, MaxBuffer}
dropscore == <<62, 75, 87, 100>>
TerminalCodes == {"EC_COMPLETE", "EC_DEVICE_LOST", "EC_ERRORABORT"}
EventCodes == TerminalCodes \cup {"EC_OTHER"}
\* a pointer is NULL or holds one object
NULL == <<>>
Owner(i) == IF i = 0 THEN "cb0" ELSE "cb1"

\* enum dshowDeviceType
VideoDevice == 0
AudioDevice == 1
DevTypes == {VideoDevice, AudioDevice}

\* the handles of struct dshow_ctx: per-device slots, event[0..1], and the single ones
DevKinds == {"graph_builder2", "capture_pin", "capture_filter", "device_pin", "device_filter"}
Handles ==
    (DevKinds \X DevTypes) \cup {<<"event", 0>>, <<"event", 1>>, <<"graph", 0>>,
                                 <<"control", 0>>, <<"media_event", 0>>, <<"mutex", 0>>}
NoHandles == [k \in Handles |-> FALSE]
AllHandles == [k \in Handles |-> TRUE]
Zeros == [k \in Handles |-> 0]
Ones == [k \in Handles |-> 1]

VARIABLES
    max_picture_buffer, video_frame_num, curbufsize, pktl, mutex, event, evq,
    eof, cb_pc, cb_buf, cb_snap, rd_pc, rd_nonblock, rd_drained, rd_pktl, rd_pkt, rd_ret,
    delivered, admitted, arrivals, ub, trapped, probes,
    is_running, ctl_last, ctl_prev,
    phase, devs, h, acq, rel, freed, closes, hdr_ret, closelog, co_init, caps_log,
    lookup_log, fmt_opts, query_last

\* the play/pause state and the last two control messages; the open/close state
ctlVars == <<is_running, ctl_last, ctl_prev>>
\* the calls of the name lookups made so far; the format options of the context and the
\* last call of dshow_query_ranges
queryVars == <<lookup_log, fmt_opts, query_last>>
lifeVars == <<phase, devs, h, acq, rel, freed, closes, hdr_ret, closelog, co_init, caps_log,
              queryVars>>

vars == <<max_picture_buffer, video_frame_num, curbufsize, pktl, mutex, event,
          evq, eof, cb_pc, cb_buf, cb_snap, rd_pc, rd_nonblock, rd_drained, rd_pktl, rd_pkt, rd_ret,
          delivered, admitted, arrivals, ub, trapped, probes, ctlVars, lifeVars>>

(* ------------------- format options of the context -------------------- *)
\* the format fields of struct dshow_ctx as the option defaults leave them
DefaultOptions ==
    [sample_size |-> 0, sample_rate |-> 0, channels |-> 0, video_codec_id |-> "NONE",
     pixel_format |-> "NONE", requested_width |-> 0, requested_height |-> 0,
     framerate |-> "(null)", requested_framerate |-> 0]

\* the same fields after the application set video_size, pixel_format, framerate,
\* sample_rate, sample_size and channels
UserOptions ==
    [sample_size |-> 16, sample_rate |-> 44100, channels |-> 2, video_codec_id |-> "NONE",
     pixel_format |-> "yuyv422", requested_width |-> 640, requested_height |-> 480,
     framerate |-> "30", requested_framerate |-> 0]

(* ----------------------------- helpers -------------------------------- *)
RECURSIVE SumSizes(_, _)
SumSizes(q, i) ==
    IF q = <<>> THEN 0
    ELSE (IF Head(q).stream_index = i THEN Head(q).size ELSE 0) + SumSizes(Tail(q), i)

IsPrefix(a, b) == Len(a) <= Len(b) /\ SubSeq(b, 1, Len(a)) = a

(* --------------------------- shall_we_drop ---------------------------- *)
\* a fullness computed from the bytes buffered for both streams together
BufferFullnessAllStreams(cur, max) == ((curbufsize[0] + curbufsize[1]) * 100) \div max

\* unsigned int buffer_fullness = (curbufsize[index]*100)/max_picture_buffer, max > 0
\* (the quotient is far below 2^32 for every size within the bounds of this model)
BufferFullness(cur, max) == (cur * 100) \div max

\* a counter with 2^32 - 1 values, a number 4 does not divide: wraps from 2^32 - 2 to 0
NextFrameNumOddRange(n) ==
    IF n = <<HalfWord - 1, HalfWord - 2>> THEN <<0, 0>>
    ELSE IF n[2] + 1 < HalfWord THEN <<n[1], n[2] + 1>>
    ELSE <<(n[1] + 1) % HalfWord, 0>>

\* ++ctx->video_frame_num on an unsigned int: wraps from 2^32 - 1 to 0
NextFrameNum(n) ==
    IF n[2] + 1 < HalfWord THEN <<n[1], n[2] + 1>>
    ELSE <<(n[1] + 1) % HalfWord, 0>>

\* n % m for an unsigned int n = n[1] * 2^16 + n[2]
UIntMod(n, m) == (((n[1] % m) * (HalfWord % m)) + (n[2] % m)) % m

\* a threshold taken at the value the counter had before it was advanced to n
ThresholdBeforeAdvance(n) == dropscore[((UIntMod(n, ndropscores) + ndropscores - 1) % ndropscores) + 1]

\* dropscore[++video_frame_num % ndropscores] with the advanced value n
Threshold(n) == dropscore[UIntMod(n, ndropscores) + 1]

\* a comparison that lets a frame in when the threshold equals the fullness
DropDecisionStrict(n, fullness) == Threshold(n) < fullness

\* the comparison of line 373
DropDecision(n, fullness) == Threshold(n) <= fullness

\* shall_we_drop for a non-zero max_picture_buffer: the advanced counter and the verdict
shall_we_drop(n, cur, max) ==
    [num |-> NextFrameNum(n), drop |-> DropDecision(NextFrameNum(n), BufferFullness(cur, max))]

(* ------------------------------ queue --------------------------------- *)
\* a list insertion at the head instead of the tail
EnqueueAtHead(q, p) == <<p>> \o q

\* for(ppktl = &ctx->pktl ; *ppktl ; ppktl = &(*ppktl)->next); *ppktl = pktl_next;
Enqueue(q, p) == Append(q, p)

\* a pop that leaves the head linked
DequeueRestKeepsHead(q) == q

\* ctx->pktl = ctx->pktl->next
DequeueRest(q) == Tail(q)

\* an increment that always charges the first stream
AddSizeFirstStream(cbs, i, n) == [cbs EXCEPT ![0] = @ + n]

\* ctx->curbufsize[index] += buf_size
AddSize(cbs, i, n) == [cbs EXCEPT ![i] = @ + n]

\* a decrement that always charges the first stream
SubSizeFirstStream(cbs, i, n) == [cbs EXCEPT ![0] = @ - n]

\* ctx->curbufsize[pkt->stream_index] -= pkt->size
SubSize(cbs, i, n) == [cbs EXCEPT ![i] = @ - n]

(* ------------------------- state after open --------------------------- *)
\* the fields of the context once dshow_read_header has returned 0
InitRunning ==
    /\ max_picture_buffer \in {0, MaxBuffer}
    /\ video_frame_num = <<0, 0>>
    /\ curbufsize = [i \in Streams |-> 0]
    /\ pktl = <<>>
    /\ mutex = "free"
    /\ event = [k \in {0, 1} |-> FALSE]
    /\ evq = <<>>
    /\ eof = FALSE
    /\ cb_pc = [i \in Streams |-> "idle"]
    /\ cb_buf = [i \in Streams |-> [size |-> 0, time |-> 0]]
    /\ cb_snap = [i \in Streams |-> NULL]
    /\ rd_pc = "idle"
    /\ rd_nonblock = FALSE
    /\ rd_pktl = NULL
    /\ rd_pkt = NULL
    /\ rd_ret = "none"
    /\ rd_drained = FALSE
    /\ delivered = <<>>
    /\ admitted = <<>>
    /\ arrivals = 0
    /\ ub = FALSE
    /\ trapped = FALSE
    /\ probes = <<>>
    /\ is_running = 1
    /\ ctl_last = NULL
    /\ ctl_prev = NULL
    /\ phase = "open"
    /\ devs = [d \in DevTypes |-> TRUE]
    /\ h = AllHandles
    /\ acq = Ones
    /\ rel = Zeros
    /\ freed = <<>>
    /\ closes = 0
    /\ hdr_ret = "ok"
    /\ closelog = <<>>
    /\ co_init = 1
    /\ caps_log = <<>>
    /\ lookup_log = <<>>
    /\ fmt_opts = DefaultOptions
    /\ query_last = <<>>

(* ----------------------------- callback ------------------------------- *)
cbOther == <<max_picture_buffer, evq, eof, rd_pc, rd_nonblock, rd_pktl, rd_pkt,
             rd_ret, rd_drained, delivered, probes, ctlVars, lifeVars>>

\* the capture filter delivers a frame of stream i: callback() is entered
CB_Enter(i, size) ==
    /\ ~trapped
    /\ phase = "open"
    /\ cb_pc[i] = "idle"
    /\ arrivals < MaxArrivals
    /\ arrivals' = arrivals + 1
    /\ cb_buf' = [cb_buf EXCEPT ![i] = [size |-> size, time |-> arrivals + 1]]
    /\ UNCHANGED cb_snap
    /\ cb_pc' = [cb_pc EXCEPT ![i] = "lock"]
    /\ UNCHANGED <<video_frame_num, curbufsize, pktl, mutex, event, admitted, ub, trapped>>
    /\ UNCHANGED cbOther

\* what the callback finds when it gets the mutex: the list, the byte counters, the
\* data event, the arrival counter and the packets appended so far
Snapshot ==
    [pktl |-> pktl, curbufsize |-> curbufsize, data_event |-> event[1],
     video_frame_num |-> video_frame_num, admitted |-> admitted]

\* a thread that goes on without waiting for the mutex
MutexNotWaitedFor(m) == TRUE

\* WaitForSingleObject(ctx->mutex, INFINITE) returns once no thread owns the mutex
MutexAcquirable(m) == m = "free"

\* WaitForSingleObject(ctx->mutex, INFINITE)
CB_Lock(i) ==
    /\ ~trapped
    /\ cb_pc[i] = "lock"
    /\ MutexAcquirable(mutex)
    /\ mutex' = Owner(i)
    /\ cb_pc' = [cb_pc EXCEPT ![i] = "drop"]
    /\ cb_snap' = [cb_snap EXCEPT ![i] = <<Snapshot>>]
    /\ UNCHANGED <<video_frame_num, curbufsize, pktl, event, cb_buf, admitted, arrivals, ub, trapped>>
    /\ UNCHANGED cbOther

\* a fail label that still charges the frame to the stream and signals the reader
AfterAdmissionCharged(drop, alloc_ok) == IF drop \/ ~alloc_ok THEN "count" ELSE "append"

\* where the callback goes after the admission verdict and the two allocations
\* (av_mallocz of the entry, av_new_packet of its buffer): to the fail label or on
AfterAdmission(drop, alloc_ok) == IF drop \/ ~alloc_ok THEN "fail" ELSE "append"

\* if (shall_we_drop(s, index, devtype)) goto fail; the allocations; max_picture_buffer > 0
CB_ShallWeDrop(i) ==
    /\ ~trapped
    /\ cb_pc[i] = "drop"
    /\ max_picture_buffer > 0
    /\ LET r == shall_we_drop(video_frame_num, curbufsize[i], max_picture_buffer)
       IN /\ video_frame_num' = r.num
          /\ \E ok \in BOOLEAN :
                cb_pc' = [cb_pc EXCEPT ![i] = AfterAdmission(r.drop, ok)]
    /\ UNCHANGED <<curbufsize, pktl, mutex, event, cb_buf, cb_snap, admitted, arrivals, ub, trapped>>
    /\ UNCHANGED cbOther

\* the same call with max_picture_buffer = 0: the division of line 370 is by zero.
\* The build either traps, or goes on with some quotient and so with either verdict.
CB_ShallWeDropZero(i) ==
    /\ ~trapped
    /\ cb_pc[i] = "drop"
    /\ max_picture_buffer = 0
    /\ ub' = TRUE
    /\ \E outcome \in {"trap", "drop", "admit"} :
          /\ trapped' = (outcome = "trap")
          /\ video_frame_num' = IF outcome = "trap" THEN video_frame_num
                                ELSE NextFrameNum(video_frame_num)
          /\ cb_pc' = [cb_pc EXCEPT ![i] =
                          IF outcome = "trap" THEN "drop"
                          ELSE AfterAdmission(outcome = "drop", TRUE)]
    /\ UNCHANGED <<curbufsize, pktl, mutex, event, cb_buf, cb_snap, admitted, arrivals>>
    /\ UNCHANGED cbOther

\* an admit path that releases the mutex without signalling
AdmitPathNoSignal(pc) ==
    CASE pc = "append" -> "count"
      [] pc = "count" -> "release"
      [] pc = "set" -> "release"

\* the statements of the admit path in the order of lines 405-415: link the entry,
\* curbufsize +=, SetEvent, ReleaseMutex
AdmitPath(pc) ==
    CASE pc = "append" -> "count"
      [] pc = "count" -> "set"
      [] pc = "set" -> "release"

\* an entry whose pts is left at the zero of av_mallocz
NewPacketNoPts(i, buf) == [stream_index |-> i, size |-> buf.size, pts |-> 0]

\* av_new_packet(&pktl_next->pkt, buf_size); pkt.stream_index = index; pkt.pts = time
NewPacket(i, buf) == [stream_index |-> i, size |-> buf.size, pts |-> buf.time]

\* fill in stream_index and pts, copy the data, link the entry at the tail
CB_Append(i) ==
    /\ ~trapped
    /\ cb_pc[i] = "append"
    /\ LET p == NewPacket(i, cb_buf[i])
       IN /\ pktl' = Enqueue(pktl, p)
          /\ admitted' = Append(admitted, p)
    /\ cb_pc' = [cb_pc EXCEPT ![i] = AdmitPath("append")]
    /\ UNCHANGED <<video_frame_num, curbufsize, mutex, event, cb_buf, cb_snap, arrivals, ub, trapped>>
    /\ UNCHANGED cbOther

\* ctx->curbufsize[index] += buf_size
CB_Count(i) ==
    /\ ~trapped
    /\ cb_pc[i] = "count"
    /\ curbufsize' = AddSize(curbufsize, i, cb_buf[i].size)
    /\ cb_pc' = [cb_pc EXCEPT ![i] = AdmitPath("count")]
    /\ UNCHANGED <<video_frame_num, pktl, mutex, event, cb_buf, cb_snap, admitted, arrivals, ub, trapped>>
    /\ UNCHANGED cbOther

\* a callback that leaves the data event as it is
SetDataEventMissing(ev) == ev

\* SetEvent(ctx->event[1]): the manual-reset data event becomes signaled
SetDataEvent(ev) == [ev EXCEPT ![1] = TRUE]

\* SetEvent(ctx->event[1])
CB_SetEvent(i) ==
    /\ ~trapped
    /\ cb_pc[i] = "set"
    /\ event' = SetDataEvent(event)
    /\ cb_pc' = [cb_pc EXCEPT ![i] = AdmitPath("set")]
    /\ UNCHANGED <<video_frame_num, curbufsize, pktl, mutex, cb_buf, cb_snap, admitted, arrivals, ub, trapped>>
    /\ UNCHANGED cbOther

\* ReleaseMutex(ctx->mutex); return   (both the admit path and the fail label)
CB_Release(i) ==
    /\ ~trapped
    /\ cb_pc[i] \in {"release", "fail"}
    /\ mutex' = "free"
    /\ cb_pc' = [cb_pc EXCEPT ![i] = "idle"]
    /\ cb_buf' = [cb_buf EXCEPT ![i] = [size |-> 0, time |-> 0]]
    /\ cb_snap' = [cb_snap EXCEPT ![i] = NULL]
    /\ UNCHANGED <<video_frame_num, curbufsize, pktl, event, admitted, arrivals, ub, trapped>>
    /\ UNCHANGED cbOther

callback(i) ==
    \/ \E size \in FrameSizes : CB_Enter(i, size)
    \/ CB_Lock(i)
    \/ CB_ShallWeDrop(i)
    \/ CB_ShallWeDropZero(i)
    \/ CB_Append(i)
    \/ CB_Count(i)
    \/ CB_SetEvent(i)
    \/ CB_Release(i)

(* ------------------------- device status events ----------------------- *)
\* an event check that reports no terminal code
dshow_check_event_queue_blind(q) == 0

\* an event check that looks at the first pending code only
dshow_check_event_queue_first(q) == IF q # <<>> /\ q[1] \in TerminalCodes THEN -1 ELSE 0

\* dshow_check_event_queue: -1 when any pending code is terminal, else 0
dshow_check_event_queue(q) ==
    IF \E k \in 1..Len(q) : q[k] \in TerminalCodes THEN -1 ELSE 0

\* the filter graph queues an event notification; its event handle (event[0]) is set.
\* No more than n notifications are pending at a time.
EV_PostUpTo(code, n) ==
    /\ ~trapped
    /\ phase = "open"
    /\ Len(evq) < n
    /\ evq' = Append(evq, code)
    /\ event' = [event EXCEPT ![0] = TRUE]
    /\ UNCHANGED <<max_picture_buffer, video_frame_num, curbufsize, pktl, mutex, eof,
                   cb_pc, cb_buf, cb_snap, rd_pc, rd_nonblock, rd_drained, rd_pktl, rd_pkt, rd_ret,
                   delivered, admitted, arrivals, ub, trapped, probes, ctlVars, lifeVars>>

EV_Post(code) == EV_PostUpTo(code, MaxEvents)

(* -------------------------- dshow_read_packet ------------------------- *)
rdOther == <<max_picture_buffer, video_frame_num, cb_pc, cb_buf, cb_snap, admitted, arrivals,
             ub, trapped, probes, ctlVars, lifeVars>>

\* a loop condition that does not look at eof
WhileCondNoEof(e, local) == local = NULL

\* while (!ctx->eof && !pktl)
WhileCond(e, local) == ~e /\ local = NULL

\* return ctx->eof ? AVERROR(EIO) : pkt->size
ReturnValue(e) == IF e THEN "EIO" ELSE "pkt"

\* the loop condition after an iteration, with eof = e: the loop goes back to the mutex,
\* or the function returns and, unless it returns the error, the caller has *pkt
LoopOrReturn(e, local, out) ==
    IF WhileCond(e, local)
    THEN /\ rd_pc' = "lock"
         /\ UNCHANGED <<rd_ret, rd_nonblock, rd_drained, delivered>>
    ELSE /\ rd_pc' = "idle"
         /\ rd_ret' = ReturnValue(e)
         /\ rd_drained' = FALSE
         /\ rd_nonblock' = FALSE
         /\ delivered' = IF ReturnValue(e) = "pkt" THEN delivered \o out ELSE delivered

\* the application calls dshow_read_packet; nb is AVFMT_FLAG_NONBLOCK of s->flags
RD_Call(nb) ==
    /\ ~trapped
    /\ phase = "open"
    /\ rd_pc = "idle"
    /\ rd_pc' = "while"
    /\ rd_pktl' = NULL
    /\ rd_pkt' = NULL
    /\ rd_ret' = "none"
    /\ rd_drained' = FALSE
    /\ rd_nonblock' = nb
    /\ UNCHANGED <<curbufsize, pktl, mutex, event, evq, eof, delivered>>
    /\ UNCHANGED rdOther

\* the first evaluation of the loop condition, with pktl = NULL
RD_While ==
    /\ ~trapped
    /\ rd_pc = "while"
    /\ LoopOrReturn(eof, rd_pktl, rd_pkt)
    /\ UNCHANGED <<curbufsize, pktl, mutex, event, evq, eof, rd_pktl, rd_pkt>>
    /\ UNCHANGED rdOther

\* WaitForSingleObject(ctx->mutex, INFINITE)
RD_Lock ==
    /\ ~trapped
    /\ rd_pc = "lock"
    /\ MutexAcquirable(mutex)
    /\ mutex' = "reader"
    /\ rd_pc' = "pop"
    /\ UNCHANGED <<curbufsize, pktl, event, evq, eof, rd_nonblock, rd_pktl, rd_pkt,
                   rd_ret, rd_drained, delivered>>
    /\ UNCHANGED rdOther

\* pktl = ctx->pktl; if (pktl) { *pkt = pktl->pkt; ctx->pktl = ctx->pktl->next; av_free(pktl);
RD_Pop ==
    /\ ~trapped
    /\ rd_pc = "pop"
    /\ IF pktl # <<>>
       THEN /\ rd_pktl' = <<Head(pktl)>>
            /\ rd_pkt' = <<Head(pktl)>>
            /\ pktl' = DequeueRest(pktl)
            /\ rd_pc' = "uncount"
       ELSE /\ rd_pktl' = NULL
            /\ rd_pc' = "reset"
            /\ UNCHANGED <<rd_pkt, pktl>>
    /\ UNCHANGED <<curbufsize, mutex, event, evq, eof, rd_nonblock, rd_ret, rd_drained, delivered>>
    /\ UNCHANGED rdOther

\* ctx->curbufsize[pkt->stream_index] -= pkt->size; }
RD_Uncount ==
    /\ ~trapped
    /\ rd_pc = "uncount"
    /\ curbufsize' = SubSize(curbufsize, rd_pkt[1].stream_index, rd_pkt[1].size)
    /\ rd_pc' = "reset"
    /\ UNCHANGED <<pktl, mutex, event, evq, eof, rd_nonblock, rd_pktl, rd_pkt, rd_ret, rd_drained,
                   delivered>>
    /\ UNCHANGED rdOther

\* a reader that leaves the data event as it is
ResetDataEventNever(ev, q) == ev

\* a reset that is skipped while packets remain in the list
ResetDataEventIfEmpty(ev, q) == IF q = <<>> THEN [ev EXCEPT ![1] = FALSE] ELSE ev

\* the events after line 2146: ResetEvent(ctx->event[1]), whatever is still queued
ResetDataEvent(ev, q) == [ev EXCEPT ![1] = FALSE]

\* ResetEvent(ctx->event[1]); ReleaseMutex(ctx->mutex); then, with a packet in hand,
\* the loop condition fails and the function returns it
RD_Release ==
    /\ ~trapped
    /\ rd_pc = "reset"
    /\ event' = ResetDataEvent(event, pktl)
    /\ mutex' = "free"
    /\ IF rd_pktl = NULL
       THEN /\ rd_pc' = "check"
            /\ UNCHANGED <<rd_ret, rd_nonblock, rd_drained, delivered>>
       ELSE LoopOrReturn(eof, rd_pktl, rd_pkt)
    /\ UNCHANGED <<curbufsize, pktl, evq, eof, rd_pktl, rd_pkt>>
    /\ UNCHANGED rdOther

\* whether the current call has taken events off the graph's queue: it has once a
\* run of dshow_check_event_queue found the queue q not empty
Drained(before, q) == before \/ q # <<>>

\* an empty-queue branch that returns EAGAIN in either mode
AfterCheckNeverWaits(r, nb) ==
    IF r < 0 THEN "eof" ELSE "EAGAIN"

\* an empty-queue branch that does not look at AVFMT_FLAG_NONBLOCK
AfterCheckBlocking(r, nb) ==
    IF r < 0 THEN "eof" ELSE "wait"

\* what the empty-queue branch does with the verdict r of the event check:
\* latch eof, return EAGAIN, or go to the wait
AfterCheck(r, nb) ==
    IF r < 0 THEN "eof" ELSE IF nb THEN "EAGAIN" ELSE "wait"

\* if (dshow_check_event_queue(...) < 0) eof = 1; else if (NONBLOCK) return EAGAIN; else wait.
\* The check takes every pending event off the queue, which clears the graph's event.
RD_Check ==
    /\ ~trapped
    /\ rd_pc = "check"
    /\ evq' = <<>>
    /\ event' = [event EXCEPT ![0] = FALSE]
    /\ LET next == AfterCheck(dshow_check_event_queue(evq), rd_nonblock)
       IN CASE next = "eof" ->
                 /\ eof' = TRUE
                 /\ LoopOrReturn(TRUE, rd_pktl, rd_pkt)
            [] next = "EAGAIN" ->
                 /\ rd_pc' = "idle"
                 /\ rd_ret' = "EAGAIN"
                 /\ rd_drained' = FALSE
                 /\ rd_nonblock' = FALSE
                 /\ UNCHANGED <<eof, delivered>>
            [] OTHER ->
                 /\ rd_pc' = "wait"
                 /\ UNCHANGED <<eof, rd_ret, rd_nonblock, delivered>>
                 /\ rd_drained' = Drained(rd_drained, evq)
    /\ UNCHANGED <<curbufsize, pktl, mutex, rd_pktl, rd_pkt>>
    /\ UNCHANGED rdOther

\* WaitForMultipleObjects(2, ctx->event, 0, INFINITE) returns once either event is set;
\* then the loop condition is evaluated again
RD_Wait ==
    /\ ~trapped
    /\ rd_pc = "wait"
    /\ event[0] \/ event[1]
    /\ LoopOrReturn(eof, rd_pktl, rd_pkt)
    /\ UNCHANGED <<curbufsize, pktl, mutex, event, evq, eof, rd_pktl, rd_pkt>>
    /\ UNCHANGED rdOther

dshow_read_packet ==
    \/ \E nb \in BOOLEAN : RD_Call(nb)
    \/ RD_While
    \/ RD_Lock
    \/ RD_Pop
    \/ RD_Uncount
    \/ RD_Release
    \/ RD_Check
    \/ RD_Wait

(* ------------------------ dshow_control_message ----------------------- *)
MessageTypes == {"PAUSE", "PLAY", "TOGGLE_PAUSE", "CONFIG", "OTHER"}
HrCommand == {"S_OK", "S_FALSE", "E_FAIL"}
HrGetState == {"S_OK", "VFW_S_STATE_INTERMEDIATE", "E_FAIL"}

\* a switch whose toggle case asks for the state the device is already in
TargetStateNoToggle(type, running) ==
    CASE type = "PAUSE" -> 0
      [] type = "PLAY" -> 1
      [] OTHER -> running

\* the switch on the message type: the requested run state
TargetState(type, running) ==
    CASE type = "PAUSE" -> 0
      [] type = "PLAY" -> 1
      [] type = "TOGGLE_PAUSE" -> 1 - running
      [] OTHER -> running

\* a switch whose default case leaves ret at 0
SwitchRetNoDefault(type) == "0"

\* ret as the switch leaves it: only the default case sets AVERROR(ENOSYS)
SwitchRet(type) == IF type = "OTHER" THEN "ENOSYS" ELSE "0"

\* a confirmation that takes S_FALSE for success without asking for the state
FinalHrAcceptsPending(hr, hr2) == IF hr = "S_FALSE" THEN "S_OK" ELSE hr

\* hr after "if (hr == S_FALSE) hr = IMediaControl_GetState(...)"
FinalHr(hr, hr2) == IF hr = "S_FALSE" THEN hr2 ELSE hr

\* a test that sends the command also when the device is in the requested state
ChangeRequestedAlways(target, running) == TRUE

\* if (run_state != ctx->is_running)
ChangeRequested(target, running) == target # running

\* the calls made on IMediaControl for a change to the run state target
DeviceCalls(target, hr) ==
    <<IF target = 1 THEN "Run" ELSE "Pause">> \o
    (IF hr = "S_FALSE" THEN <<"GetState">> ELSE <<>>)

\* an assignment of is_running made whatever the device answered
RunStateAfterUnchecked(running, target, hr, hr2) == target

\* is_running after the block of lines 1779-1794
RunStateAfter(running, target, hr, hr2) ==
    IF target # running /\ FinalHr(hr, hr2) = "S_OK" THEN target ELSE running

\* the value dshow_control_message returns
ControlRet(type, running, target, hr, hr2) ==
    IF target # running /\ FinalHr(hr, hr2) # "S_OK" THEN "EIO" ELSE SwitchRet(type)

\* one control message from the application, answered by the graph with hr to the
\* Run or Pause command and hr2 to the state query that follows an S_FALSE
dshow_control_message(type, hr, hr2) ==
    /\ ~trapped
    /\ phase = "open"
    /\ rd_pc = "idle"
    /\ LET target == TargetState(type, is_running)
           issued == ChangeRequested(target, is_running)
       IN /\ (~issued => hr = "S_OK")
          /\ (~(issued /\ hr = "S_FALSE") => hr2 = "S_OK")
          /\ is_running' = RunStateAfter(is_running, target, hr, hr2)
          /\ ctl_prev' = ctl_last
          /\ ctl_last' = <<[type |-> type, before |-> is_running,
                            calls |-> IF issued THEN DeviceCalls(target, hr) ELSE <<>>,
                            hr |-> hr, hr2 |-> hr2,
                            ret |-> ControlRet(type, is_running, target, hr, hr2)]>>
    /\ UNCHANGED <<max_picture_buffer, video_frame_num, curbufsize, pktl, mutex, event,
                   evq, eof, cb_pc, cb_buf, cb_snap, rd_pc, rd_nonblock, rd_drained, rd_pktl, rd_pkt, rd_ret,
                   delivered, admitted, arrivals, ub, trapped, probes, lifeVars>>

NextCtl ==
    \E type \in MessageTypes, hr \in HrCommand, hr2 \in HrGetState :
        dshow_control_message(type, hr, hr2)

(* ---------------- dshow_read_header and dshow_read_close -------------- *)
Slot(kind, devtype) == <<kind, devtype>>
Single(kind) == <<kind, 0>>

\* storing a freshly acquired reference in a context field; what the field held is
\* overwritten, not released
Acquire(st, k) ==
    [h |-> [st.h EXCEPT ![k] = TRUE], acq |-> [st.acq EXCEPT ![k] = @ + 1]]

\* dshow_open_device failing at step f, or succeeding for f = OpenOk:
\* 1 no such device, 2 AddFilter of the device filter, 3 no pin, 4 no grabber filter,
\* 5 saving or adding the grabber filter, 6 no CaptureGraphBuilder2, 7 RenderStream or
\* crossbar setup. The fields are stored as soon as each object exists.
OpenOk == 8
AddDeviceFailed == 9
DeviceOk == 10
dshow_open_device(st, devtype, f) ==
    LET s1 == IF f >= 2 THEN Acquire(st, Slot("device_filter", devtype)) ELSE st
        s2 == IF f >= 4 THEN Acquire(s1, Slot("device_pin", devtype)) ELSE s1
        s3 == IF f >= 5 THEN Acquire(s2, Slot("capture_filter", devtype)) ELSE s2
        s4 == IF f >= 6 THEN Acquire(s3, Slot("capture_pin", devtype)) ELSE s3
        s5 == IF f >= 7 THEN Acquire(s4, Slot("graph_builder2", devtype)) ELSE s4
    IN s5

\* the pair dshow_open_device || dshow_add_device: f <= 7 fails in the first,
\* f = AddDeviceFailed in the second (which acquires nothing), f = DeviceOk succeeds
OpenAndAdd(st, devtype, f) == dshow_open_device(st, devtype, IF f > OpenOk THEN OpenOk ELSE f)
DeviceOutcomes == (1..7) \cup {AddDeviceFailed, DeviceOk}

\* a close that walks the packet list before it closes the mutex and the events
CloseOrderDrainFirst ==
    <<Slot("graph_builder2", VideoDevice), Slot("graph_builder2", AudioDevice),
      Single("control"), Single("media_event"), Single("graph"),
      Slot("capture_pin", VideoDevice), Slot("capture_pin", AudioDevice),
      Slot("capture_filter", VideoDevice), Slot("capture_filter", AudioDevice),
      Slot("device_pin", VideoDevice), Slot("device_pin", AudioDevice),
      Slot("device_filter", VideoDevice), Slot("device_filter", AudioDevice),
      Single("pktl"), Single("mutex"), <<"event", 0>>, <<"event", 1>>>>

\* the statements of dshow_read_close in the order of the source: the fields it
\* releases if they are set, and the walk of the packet list
CloseOrder ==
    <<Slot("graph_builder2", VideoDevice), Slot("graph_builder2", AudioDevice),
      Single("control"), Single("media_event"), Single("graph"),
      Slot("capture_pin", VideoDevice), Slot("capture_pin", AudioDevice),
      Slot("capture_filter", VideoDevice), Slot("capture_filter", AudioDevice),
      Slot("device_pin", VideoDevice), Slot("device_pin", AudioDevice),
      Slot("device_filter", VideoDevice), Slot("device_filter", AudioDevice),
      Single("mutex"), <<"event", 0>>, <<"event", 1>>, Single("pktl")>>

\* what one statement of the close does on a context holding `held` with list q:
\* IMediaControl_Stop and Release for the control, one av_packet_unref/av_free per
\* list entry for the walk, a Release or CloseHandle for any other field that is set
CloseStep(k, held, q) ==
    IF k = Single("pktl") THEN [j \in 1..Len(q) |-> <<"free", q[j].pts>>]
    ELSE IF ~held[k] THEN <<>>
    ELSE IF k = Single("control") THEN <<<<"stop", 0>>, k>>
    ELSE <<k>>

RECURSIVE CloseLogFrom(_, _, _)
CloseLogFrom(n, held, q) ==
    IF n > Len(CloseOrder) THEN <<>>
    ELSE CloseStep(CloseOrder[n], held, q) \o CloseLogFrom(n + 1, held, q)

\* the calls one run of dshow_read_close makes, in order
CloseLog(held, q) == CloseLogFrom(1, held, q)

\* the release counts after the if (field) Release(field) statements
ReleaseHeld(held, released) ==
    [k \in Handles |-> IF held[k] THEN released[k] + 1 ELSE released[k]]

\* the queue walk of lines 341-348: every entry left in the list is freed
FreeQueue(q) == q

\* no device name: both ctx->device_name fields NULL
NoNames == [d \in DevTypes |-> FALSE]

\* ctx->device_name after a step of dshow_read_header that parsed or kept names: the
\* close at the error label frees the names (av_freep, lines 322-323)
NamesAfter(ph, names) == IF ph = "closed" THEN NoNames ELSE names

\* the whole of dshow_read_close on the current context
CloseEffect ==
    /\ rel' = ReleaseHeld(h, rel)
    /\ closelog' = CloseLog(h, pktl)
    /\ h' = NoHandles
    /\ freed' = freed \o FreeQueue(pktl)
    /\ pktl' = <<>>
    /\ closes' = closes + 1
    /\ phase' = "closed"
    /\ devs' = NoNames

pipeIdle == <<max_picture_buffer, video_frame_num, mutex, event, evq, eof, cb_pc,
              cb_buf, cb_snap, rd_pc, rd_nonblock, rd_pktl, rd_pkt, rd_ret, rd_drained, delivered,
              admitted, arrivals, ub, trapped, probes, queryVars>>

\* the application closes the input: the graph is stopped first, so no callback runs
dshow_read_close ==
    /\ ~trapped
    /\ phase \in {"open", "closed"}
    /\ closes < MaxCloses
    /\ rd_pc = "idle"
    /\ \A i \in Streams : cb_pc[i] = "idle"
    /\ CloseEffect
    /\ UNCHANGED <<curbufsize, acq, hdr_ret, co_init, caps_log>>
    /\ UNCHANGED ctlVars
    /\ UNCHANGED pipeIdle

\* the error label of dshow_read_header: ret < 0, so dshow_read_close runs on whatever
\* st holds by now
HeaderFails(st) ==
    /\ acq' = st.acq
    /\ rel' = ReleaseHeld(st.h, rel)
    /\ closelog' = CloseLog(st.h, pktl)
    /\ h' = NoHandles
    /\ freed' = freed \o FreeQueue(pktl)
    /\ pktl' = <<>>
    /\ closes' = closes + 1
    /\ phase' = "closed"
    /\ hdr_ret' = "error"
    /\ caps_log' = caps_log

HeaderGoesOn(st, next) ==
    /\ acq' = st.acq
    /\ h' = st.h
    /\ phase' = next
    /\ UNCHANGED <<rel, freed, pktl, closes, hdr_ret, closelog, caps_log>>

\* CoInitialize up to ctx->is_running = 0: the device string is parsed into the names
\* of a video device, an audio device or both, the filter graph and the device
\* enumerator are created. f names the first step that fails, if any.
HR_Begin(names, f) ==
    /\ phase = "new"
    /\ co_init' = co_init + 1
    /\ LET st == [h |-> h, acq |-> acq]
       IN CASE f \in {"parse", "graph"} -> HeaderFails(st) /\ UNCHANGED is_running
            [] f = "devenum" -> HeaderFails(Acquire(st, Single("graph"))) /\ UNCHANGED is_running
            [] OTHER -> HeaderGoesOn(Acquire(st, Single("graph")), "video") /\ is_running' = 0
    /\ devs' = NamesAfter(phase', names)
    /\ UNCHANGED <<curbufsize, ctl_last, ctl_prev>>
    /\ UNCHANGED pipeIdle

\* if (ctx->device_name[VideoDevice]) open and add the video device
HR_Video(f) ==
    /\ phase = "video"
    /\ LET st == [h |-> h, acq |-> acq]
       IN IF ~devs[VideoDevice] THEN f = DeviceOk /\ HeaderGoesOn(st, "audio")
          ELSE IF f = DeviceOk THEN HeaderGoesOn(OpenAndAdd(st, VideoDevice, f), "audio")
          ELSE HeaderFails(OpenAndAdd(st, VideoDevice, f))
    /\ devs' = NamesAfter(phase', devs)
    /\ UNCHANGED <<curbufsize, co_init>>
    /\ UNCHANGED ctlVars
    /\ UNCHANGED pipeIdle

\* if (ctx->device_name[AudioDevice]) open and add it from the audio sources; when that
\* fails the same device is looked for among the video sources
HR_Audio(f) ==
    /\ phase = "audio"
    /\ LET st == [h |-> h, acq |-> acq]
       IN IF ~devs[AudioDevice] THEN f = DeviceOk /\ HeaderGoesOn(st, "tail")
          ELSE IF f = DeviceOk THEN HeaderGoesOn(OpenAndAdd(st, AudioDevice, f), "tail")
          ELSE HeaderGoesOn(OpenAndAdd(st, AudioDevice, f), "retry")
    /\ devs' = NamesAfter(phase', devs)
    /\ UNCHANGED <<curbufsize, co_init>>
    /\ UNCHANGED ctlVars
    /\ UNCHANGED pipeIdle

\* the second attempt for the audio device, on top of what the first one left
HR_AudioRetry(f) ==
    /\ phase = "retry"
    /\ LET st == [h |-> h, acq |-> acq]
       IN IF f = DeviceOk THEN HeaderGoesOn(OpenAndAdd(st, AudioDevice, f), "tail")
          ELSE HeaderFails(OpenAndAdd(st, AudioDevice, f))
    /\ devs' = NamesAfter(phase', devs)
    /\ UNCHANGED <<curbufsize, co_init>>
    /\ UNCHANGED ctlVars
    /\ UNCHANGED pipeIdle

\* the steps from the mutex to IMediaControl_Run, in the order they acquire
TailSteps == <<"mutex", "event1", "control", "media_event", "event0">>
TailSlot(name) ==
    CASE name = "mutex" -> Single("mutex")
      [] name = "event1" -> <<"event", 1>>
      [] name = "control" -> Single("control")
      [] name = "media_event" -> Single("media_event")
      [] OTHER -> <<"event", 0>>

RECURSIVE AcquireFirst(_, _)
\* the context after the first n of TailSteps succeeded
AcquireFirst(st, n) ==
    IF n = 0 THEN st ELSE Acquire(AcquireFirst(st, n - 1), TailSlot(TailSteps[n]))

\* curbufsize = 0; the mutex, the data event, the control and event interfaces, the
\* duplicated event handle; Run. n in 0..4 is the number of steps that succeeded before
\* one failed (GetEventHandle failing acquires as little as media_event succeeding);
\* n = 5 with run_ok false is the Run command not confirmed; run_ok true is success.
HR_Tail(n, run_ok) ==
    /\ phase = "tail"
    /\ curbufsize' = [i \in Streams |-> 0]
    /\ LET st == AcquireFirst([h |-> h, acq |-> acq], n)
       IN IF n = Len(TailSteps) /\ run_ok
          THEN /\ acq' = st.acq
               /\ h' = st.h
               /\ phase' = "open"
               /\ hdr_ret' = "ok"
               /\ is_running' = 1
               /\ UNCHANGED <<rel, freed, pktl, closes, closelog, caps_log>>
          ELSE /\ ~run_ok
               /\ HeaderFails(st)
               /\ UNCHANGED is_running
    /\ devs' = NamesAfter(phase', devs)
    /\ UNCHANGED <<co_init, ctl_last, ctl_prev>>
    /\ UNCHANGED pipeIdle

DeviceNames ==
    {[d \in DevTypes |-> d = VideoDevice], [d \in DevTypes |-> d = AudioDevice],
     [d \in DevTypes |-> TRUE]}

dshow_read_header ==
    \/ \E names \in DeviceNames, f \in {"parse", "graph", "devenum", "ok"} : HR_Begin(names, f)
    \/ \E f \in DeviceOutcomes : HR_Video(f)
    \/ \E f \in DeviceOutcomes : HR_Audio(f)
    \/ \E f \in DeviceOutcomes : HR_AudioRetry(f)
    \/ \E n \in 0..Len(TailSteps), run_ok \in BOOLEAN : HR_Tail(n, run_ok)

\* a context as avformat allocates it: zeroed private data, rtbufsize from the options
InitNew ==
    /\ max_picture_buffer \in {0, MaxBuffer}
    /\ video_frame_num = <<0, 0>>
    /\ curbufsize = [i \in Streams |-> 0]
    /\ pktl = <<>>
    /\ mutex = "free"
    /\ event = [k \in {0, 1} |-> FALSE]
    /\ evq = <<>>
    /\ eof = FALSE
    /\ cb_pc = [i \in Streams |-> "idle"]
    /\ cb_buf = [i \in Streams |-> [size |-> 0, time |-> 0]]
    /\ cb_snap = [i \in Streams |-> NULL]
    /\ rd_pc = "idle"
    /\ rd_nonblock = FALSE
    /\ rd_pktl = NULL
    /\ rd_pkt = NULL
    /\ rd_ret = "none"
    /\ rd_drained = FALSE
    /\ delivered = <<>>
    /\ admitted = <<>>
    /\ arrivals = 0
    /\ ub = FALSE
    /\ trapped = FALSE
    /\ probes = <<>>
    /\ is_running = 0
    /\ ctl_last = NULL
    /\ ctl_prev = NULL
    /\ phase = "new"
    /\ devs = [d \in DevTypes |-> FALSE]
    /\ h = NoHandles
    /\ acq = Zeros
    /\ rel = Zeros
    /\ freed = <<>>
    /\ closes = 0
    /\ hdr_ret = "none"
    /\ closelog = <<>>
    /\ co_init = 0
    /\ caps_log = <<>>
    /\ lookup_log = <<>>
    /\ fmt_opts = DefaultOptions
    /\ query_last = <<>>

\* opening, capturing and closing, with no reader
NextLife ==
    \/ dshow_read_header
    \/ \E i \in Streams : callback(i)
    \/ dshow_read_close

SpecLife == InitNew /\ [][NextLife]_vars

SpecCtl == InitRunning /\ [][NextCtl]_vars

(* ------------------- device capabilities: create, free ---------------- *)
\* what the url of the context parses to: the names of one or two devices, or nothing
ParsedNames == DeviceNames \cup {NoNames}

\* the enumerator is released at the fail label (2386-2388), which every path that
\* created it goes through but the return of line 2365
CapsReleasesEnum(created, video_fail) == created /\ ~video_fail

\* dshow_create_device_capabilities on a context whose url parses to names (NoNames:
\* parse_device_name fails); enum_ok: CoCreateInstance gave the enumerator; video_ok,
\* audio_ok, fallback_ok: dshow_cycle_devices found the video device, the audio device
\* among the audio sources, the audio device among the video sources
dshow_create_device_capabilities(names, enum_ok, video_ok, audio_ok, fallback_ok) ==
    /\ ~trapped
    /\ phase \in {"new", "open", "closed"}
    /\ rd_pc = "idle"
    /\ \A i \in Streams : cb_pc[i] = "idle"
    /\ Len(caps_log) < MaxCreates
    /\ LET opened == devs[VideoDevice] \/ devs[AudioDevice]
           parsed == ~opened /\ names # NoNames
           created == parsed /\ enum_ok
           video_try == created /\ names[VideoDevice]
           video_fail == video_try /\ ~video_ok
           audio_try == created /\ ~video_fail /\ names[AudioDevice]
           audio_fail == audio_try /\ ~audio_ok /\ ~fallback_ok
           st0 == [h |-> h, acq |-> acq]
           st1 == IF video_try /\ video_ok
                  THEN Acquire(st0, Slot("device_filter", VideoDevice)) ELSE st0
           st2 == IF audio_try /\ ~audio_fail
                  THEN Acquire(st1, Slot("device_filter", AudioDevice)) ELSE st1
       IN /\ (opened => names = NoNames)
          /\ (~parsed => enum_ok)
          /\ (~video_try => video_ok)
          /\ (~audio_try => audio_ok)
          /\ (~(audio_try /\ ~audio_ok) => fallback_ok)
          /\ devs' = IF opened THEN devs ELSE names
          /\ co_init' = IF parsed THEN co_init + 1 ELSE co_init
          /\ h' = st2.h
          /\ acq' = st2.acq
          /\ caps_log' = Append(caps_log,
                [ret |-> IF opened THEN "EIO"
                         ELSE IF ~parsed THEN "EINVAL"
                         ELSE IF ~created \/ video_fail \/ audio_fail THEN "EIO"
                         ELSE "0",
                 com |-> parsed,
                 enum_created |-> created,
                 enum_released |-> CapsReleasesEnum(created, video_fail)])
    /\ UNCHANGED <<phase, rel, freed, pktl, closes, hdr_ret, closelog, curbufsize>>
    /\ UNCHANGED ctlVars
    /\ UNCHANGED pipeIdle

\* dshow_free_device_capabilities: dshow_read_close on the context, whatever it holds
dshow_free_device_capabilities ==
    /\ ~trapped
    /\ phase \in {"new", "closed"}
    /\ caps_log # <<>>
    /\ closes < MaxCloses
    /\ rd_pc = "idle"
    /\ \A i \in Streams : cb_pc[i] = "idle"
    /\ CloseEffect
    /\ UNCHANGED <<curbufsize, acq, hdr_ret, co_init, caps_log>>
    /\ UNCHANGED ctlVars
    /\ UNCHANGED pipeIdle

\* capability queries, the open and the close on one context, in any order
NextCaps ==
    \/ \E names \in ParsedNames, enum_ok, video_ok, audio_ok, fallback_ok \in BOOLEAN :
          dshow_create_device_capabilities(names, enum_ok, video_ok, audio_ok, fallback_ok)
    \/ dshow_free_device_capabilities
    \/ dshow_read_header
    \/ dshow_read_close

SpecCaps == InitNew /\ [][NextCaps]_vars

(* ------------------- the capture pipeline while open ------------------ *)
NextPipe ==
    \/ \E i \in Streams : callback(i)
    \/ dshow_read_packet
    \/ \E code \in EventCodes : EV_Post(code)

SpecPipe == InitRunning /\ [][NextPipe]_vars

\* a callback that has been entered runs to its return: its thread is scheduled, and
\* it waits for nothing but the mutex
CallbackGoesOn(i) ==
    \/ CB_Lock(i)
    \/ CB_ShallWeDrop(i)
    \/ CB_ShallWeDropZero(i)
    \/ CB_Append(i)
    \/ CB_Count(i)
    \/ CB_SetEvent(i)
    \/ CB_Release(i)

\* a call of dshow_read_packet that has begun goes on whenever it can
ReaderGoesOn ==
    \/ RD_While
    \/ RD_Lock
    \/ RD_Pop
    \/ RD_Uncount
    \/ RD_Release
    \/ RD_Check
    \/ RD_Wait

\* the pipeline with both threads scheduled: a thread that can go on does, and a
\* thread waiting for the mutex gets it when it is released again and again (the
\* mutex hands ownership to a waiter). When the application calls and when frames
\* and events arrive stays free.
SpecPipeFair ==
    /\ InitRunning
    /\ [][NextPipe]_vars
    /\ WF_vars(ReaderGoesOn)
    /\ SF_vars(RD_Lock)
    /\ \A i \in Streams : WF_vars(CallbackGoesOn(i)) /\ SF_vars(CB_Lock(i))

(* ----------------- capture, reads and the close ----------------------- *)
\* frames arrive and are read while the input is open, and the application closes it
\* between two reads, the graph stopped and no callback running
NextQueueLife ==
    \/ \E i \in Streams : callback(i)
    \/ dshow_read_packet
    \/ dshow_read_close

SpecQueueLife == InitRunning /\ [][NextQueueLife]_vars

(* ------------- the reader and batches of graph events ----------------- *)
\* what the list holds when the reads start: nothing, or one frame of the video stream
StartQueues == {<<>>, <<[stream_index |-> 0, size |-> 1, pts |-> 1]>>}

\* an open input whose callbacks have returned, with the list as they left it
InitDrain ==
    /\ max_picture_buffer = MaxBuffer
    /\ pktl \in StartQueues
    /\ admitted = pktl
    /\ arrivals = Len(pktl)
    /\ video_frame_num = <<0, Len(pktl)>>
    /\ curbufsize = [i \in Streams |-> SumSizes(pktl, i)]
    /\ mutex = "free"
    /\ event = [k \in {0, 1} |-> k = 1 /\ pktl # <<>>]
    /\ evq = <<>>
    /\ eof = FALSE
    /\ cb_pc = [i \in Streams |-> "idle"]
    /\ cb_buf = [i \in Streams |-> [size |-> 0, time |-> 0]]
    /\ cb_snap = [i \in Streams |-> NULL]
    /\ rd_pc = "idle"
    /\ rd_nonblock = FALSE
    /\ rd_pktl = NULL
    /\ rd_pkt = NULL
    /\ rd_ret = "none"
    /\ rd_drained = FALSE
    /\ delivered = <<>>
    /\ ub = FALSE
    /\ trapped = FALSE
    /\ probes = <<>>
    /\ is_running = 1
    /\ ctl_last = NULL
    /\ ctl_prev = NULL
    /\ phase = "open"
    /\ devs = [d \in DevTypes |-> TRUE]
    /\ h = AllHandles
    /\ acq = Ones
    /\ rel = Zeros
    /\ freed = <<>>
    /\ closes = 0
    /\ hdr_ret = "ok"
    /\ closelog = <<>>
    /\ co_init = 1
    /\ caps_log = <<>>
    /\ lookup_log = <<>>
    /\ fmt_opts = DefaultOptions
    /\ query_last = <<>>

\* reads while the graph posts notifications, up to MaxBatch pending at a time
NextDrain ==
    \/ dshow_read_packet
    \/ \E code \in EventCodes : EV_PostUpTo(code, MaxBatch)

SpecDrain == InitDrain /\ [][NextDrain]_vars

(* ------------- control messages while frames and events wait ---------- *)
\* the application sends control messages between two reads, with a frame queued or
\* not and with notifications of the graph pending or not
NextCtlQueue ==
    \/ NextCtl
    \/ \E code \in EventCodes : EV_PostUpTo(code, MaxEvents)

SpecCtlQueue == InitDrain /\ [][NextCtlQueue]_vars

(* ------------- query types and option names (utils.c) ---------------- *)
\* enum AVDeviceCapabilitiesQueryType
QueryTypes ==
    {"NONE", "CODEC", "SAMPLE_FORMAT", "SAMPLE_RATE", "CHANNELS", "CHANNEL_LAYOUT",
     "PIXEL_FORMAT", "WINDOW_SIZE", "FRAME_SIZE", "FPS"}
SizeTypes == {"WINDOW_SIZE", "FRAME_SIZE"}

query_table ==
    <<[name |-> "codec", query_type |-> "CODEC"],
      [name |-> "sample_format", query_type |-> "SAMPLE_FORMAT"],
      [name |-> "sample_rate", query_type |-> "SAMPLE_RATE"],
      [name |-> "channels", query_type |-> "CHANNELS"],
      [name |-> "channel_layout", query_type |-> "CHANNEL_LAYOUT"],
      [name |-> "pixel_format", query_type |-> "PIXEL_FORMAT"],
      [name |-> "frame_size", query_type |-> "FRAME_SIZE"],
      [name |-> "window_size", query_type |-> "WINDOW_SIZE"],
      [name |-> "fps", query_type |-> "FPS"]>>

\* a null char pointer
NoString == "(null)"

\* the first index at or after i whose entry has the name, 0 if there is none
RECURSIVE FirstNamed(_, _)
FirstNamed(i, option_name) ==
    IF i > Len(query_table) THEN 0
    ELSE IF query_table[i].name = option_name THEN i
    ELSE FirstNamed(i + 1, option_name)

\* the first index at or after i whose entry has the query type, 0 if there is none
RECURSIVE FirstTyped(_, _)
FirstTyped(i, query_type) ==
    IF i > Len(query_table) THEN 0
    ELSE IF query_table[i].query_type = query_type THEN i
    ELSE FirstTyped(i + 1, query_type)

\* a lookup that answers with the first entry of the table for an unknown name
ff_device_get_query_type_first(option_name) ==
    LET i == FirstNamed(1, option_name)
    IN query_table[IF i = 0 THEN 1 ELSE i].query_type

\* the loop over query_table with strcmp, for option_name a string
ff_device_get_query_type(option_name) ==
    LET i == FirstNamed(1, option_name)
    IN IF i = 0 THEN "NONE" ELSE query_table[i].query_type

\* the name of component `component` of a query type; for a type that is not a size
\* av_assert0(component == 0) aborts for any other component
ff_device_get_query_component_name(query_type, component) ==
    IF query_type \in SizeTypes
    THEN CASE component = 0 -> "pixel_count"
           [] component = 1 -> "width"
           [] component = 2 -> "height"
           [] OTHER -> ""
    ELSE IF component # 0 THEN "abort"
    ELSE LET i == FirstTyped(1, query_type)
         IN IF i = 0 THEN NoString ELSE query_table[i].name

\* the names the lookups are tried with: those of the table, those of the components
\* of a size, and two that are in neither
TableNames == {query_table[i].name : i \in 1..Len(query_table)}
OptionNames == TableNames \cup {"pixel_count", "width", "height", "", "video_size"}

\* everything but the log of the lookups
notLookup == <<max_picture_buffer, video_frame_num, curbufsize, pktl, mutex, event, evq,
               eof, cb_pc, cb_buf, cb_snap, rd_pc, rd_nonblock, rd_drained, rd_pktl, rd_pkt,
               rd_ret, delivered, admitted, arrivals, ub, trapped, probes, ctlVars,
               phase, devs, h, acq, rel, freed, closes, hdr_ret, closelog, co_init,
               caps_log, fmt_opts, query_last>>

LogLookup(op, q, c, name, type) ==
    /\ Len(lookup_log) < MaxLookups
    /\ lookup_log' = Append(lookup_log,
                            [op |-> op, q |-> q, c |-> c, name |-> name, type |-> type])
    /\ UNCHANGED notLookup

\* a call of ff_device_get_query_type with a string
GetQueryType(name) ==
    LogLookup("type", "NONE", 0, name, ff_device_get_query_type(name))

\* a call of ff_device_get_query_component_name
GetComponentName(q, c) ==
    /\ (q \notin SizeTypes => c = 0)
    /\ LogLookup("name", q, c, ff_device_get_query_component_name(q, c), "NONE")

\* ff_device_get_query_type(ff_device_get_query_component_name(q, 0)): when the name is
\* a null pointer strcmp reads through it, and the call crashes or returns any type
TypeOfName(q, outcome) ==
    LET name == ff_device_get_query_component_name(q, 0)
    IN /\ (name # NoString => outcome = ff_device_get_query_type(name))
       /\ LogLookup("back", q, 0, name, outcome)

NextNames ==
    /\ Len(lookup_log) < MaxLookups
    /\ \/ \E name \in OptionNames : GetQueryType(name)
       \/ \E q \in QueryTypes, c \in 0..3 : GetComponentName(q, c)
       \/ \E q \in QueryTypes, outcome \in QueryTypes \cup {"crash"} : TypeOfName(q, outcome)

SpecNames == InitNew /\ [][NextNames]_vars

(* -------------------------- dshow_query_ranges ------------------------ *)
AVERROR_EIO == -5
AVERROR_ENOMEM == -12
AVERROR_EINVAL == -22
AVERROR_OPTION_NOT_FOUND == -1414549496

\* the constraints of an AVDeviceCapabilitiesQuery: none set, or all of them set
CapsUnset ==
    [codec |-> "NONE", sample_format |-> "NONE", pixel_format |-> "NONE", sample_rate |-> -1,
     channels |-> -1, frame_width |-> -1, frame_height |-> -1, fps_nan |-> TRUE, fps |-> 0]
CapsSet ==
    [codec |-> "MJPEG", sample_format |-> "s32", pixel_format |-> "bgr24", sample_rate |-> 48000,
     channels |-> 1, frame_width |-> 1280, frame_height |-> 720, fps_nan |-> FALSE, fps |-> 25]
CapsQueries == {CapsUnset, CapsSet}

av_get_bytes_per_sample(fmt) ==
    CASE fmt = "u8" -> 1
      [] fmt = "s16" -> 2
      [] fmt = "s32" -> 4
      [] OTHER -> 0

\* the options while the formats are listed: the constraints of the query (2220-2241);
\* strdup_ok: av_strdup("dummy") gave a string
SetConstraints(opts, caps, strdup_ok) ==
    [sample_size |-> av_get_bytes_per_sample(caps.sample_format) * 8,
     sample_rate |-> IF caps.sample_rate = -1 THEN 0 ELSE caps.sample_rate,
     channels |-> IF caps.channels = -1 THEN 0 ELSE caps.channels,
     video_codec_id |-> caps.codec,
     pixel_format |-> caps.pixel_format,
     requested_width |-> caps.frame_width,
     requested_height |-> caps.frame_height,
     framerate |-> IF caps.fps_nan \/ ~strdup_ok THEN NoString ELSE "dummy",
     requested_framerate |-> IF caps.fps_nan THEN opts.requested_framerate ELSE caps.fps]

\* ctx->video_codec_id = ctx->video_codec_id ? ctx->video_codec_id : AV_CODEC_ID_RAWVIDEO
DefaultCodec(opts) ==
    [opts EXCEPT !.video_codec_id = IF @ = "NONE" THEN "RAWVIDEO" ELSE @]

\* a restore of the audio fields only
RestoreOptionsAudioOnly(opts, backup) ==
    [opts EXCEPT !.sample_size = backup.sample_size,
                 !.sample_rate = backup.sample_rate,
                 !.channels = backup.channels]

\* the assignments after the label fail2 (2297-2310)
RestoreOptions(opts, backup) ==
    [opts EXCEPT !.sample_size = backup.sample_size,
                 !.sample_rate = backup.sample_rate,
                 !.channels = backup.channels,
                 !.video_codec_id = backup.video_codec_id,
                 !.pixel_format = backup.pixel_format,
                 !.requested_width = backup.requested_width,
                 !.requested_height = backup.requested_height,
                 !.framerate = backup.framerate]

\* what dshow_list_device_options left in ranges->range for nb formats of nc components
\* each: the entry of component j of format i at index nc * i + j
Filled(nb, nc) ==
    [n \in 1..(nb * nc) |-> [range |-> (n - 1) \div nc, comp |-> (n - 1) % nc]]

\* an index that keeps the order the entries were stored in
NewIndexSameOrder(nb_ranges, nb_components, i, j) == nb_components * i + j

\* new_range[ranges->nb_ranges * j + i]
NewIndex(nb_ranges, nb_components, i, j) == nb_ranges * j + i

\* the for loop of lines 2285-2289 from n on; new_range is what av_malloc_array gave
RECURSIVE ReorderFrom(_, _, _, _, _)
ReorderFrom(n, old_range, new_range, nb_ranges, nb_components) ==
    IF n >= nb_components * nb_ranges THEN new_range
    ELSE LET i == n \div nb_components
             j == n % nb_components
             at == NewIndex(nb_ranges, nb_components, i, j) + 1
         IN ReorderFrom(n + 1, old_range,
                        [k \in DOMAIN new_range |-> IF k = at THEN old_range[n + 1] ELSE new_range[k]],
                        nb_ranges, nb_components)

\* lines 2277-2292 on ranges with nb_ranges entries stored: nb_ranges is divided by
\* nb_components first, and the loop runs with the quotient
Reorder(old_range, nb_components) ==
    LET nb_ranges == Len(old_range) \div nb_components
        fresh == [k \in 1..(nb_components * Len(old_range)) |-> "uninitialized"]
        filled == ReorderFrom(0, old_range, fresh, nb_ranges, nb_components)
    IN [nb_ranges |-> nb_ranges, nb_components |-> nb_components,
        range |-> SubSeq(filled, 1, nb_components * nb_ranges)]

\* everything but the options and the log of the queries
notQuery == <<max_picture_buffer, video_frame_num, curbufsize, pktl, mutex, event, evq,
              eof, cb_pc, cb_buf, cb_snap, rd_pc, rd_nonblock, rd_drained, rd_pktl, rd_pkt,
              rd_ret, delivered, admitted, arrivals, ub, trapped, probes, ctlVars,
              phase, devs, h, acq, rel, freed, closes, hdr_ret, closelog, co_init,
              caps_log, lookup_log>>

\* the number of calls of dshow_query_ranges so far; query_last holds the last one
QueriesMade == IF query_last = <<>> THEN 0 ELSE query_last[1].nth

\* the application sets the format options of the device before it queries
SetOptions ==
    /\ query_last = <<>>
    /\ fmt_opts = DefaultOptions
    /\ fmt_opts' = UserOptions
    /\ UNCHANGED query_last
    /\ UNCHANGED notQuery

\* the ways dshow_query_ranges returns: the allocation of ranges failed, the option was
\* not found, its query type is not supported, the dummy framerate could not be
\* allocated, CoCreateInstance gave no enumerator, dshow_list_device_options failed for
\* the video device, or for the audio device and its fallback, new_range could not be
\* allocated, or none of these
QueryPaths ==
    {"ranges", "field", "unsupported", "framerate", "devenum", "video", "audio",
     "new_range", "success"}
EarlyPaths == {"ranges", "field", "unsupported"}

\* path can be taken for option key with the constraints caps, nc components and
\* nstored formats stored by the listings, on a context with the device names names
PathFeasible(path, key, caps, nc, nstored, names) ==
    LET query_type == IF key \in TableNames THEN ff_device_get_query_type(key) ELSE "NONE"
        unsupported == query_type \in {"CHANNEL_LAYOUT", "WINDOW_SIZE"}
    IN /\ (path = "field") => key \notin TableNames
       /\ (path = "unsupported") => unsupported
       /\ (path \notin EarlyPaths) => (key \in TableNames /\ ~unsupported)
       /\ (path = "framerate") => ~caps.fps_nan
       /\ (path = "video") => names[VideoDevice]
       /\ (path = "audio") => names[AudioDevice]
       /\ (path = "new_range") => (nc > 1 /\ nstored > 0)
       /\ (path \notin {"new_range", "success"}) => nstored = 0
       /\ (path \in EarlyPaths) => caps = CapsUnset
       /\ (nc > 1) => query_type \in SizeTypes

\* ret at the return
QueryRet(path, nc, nstored) ==
    CASE path = "ranges" -> AVERROR_ENOMEM
      [] path = "field" -> AVERROR_OPTION_NOT_FOUND
      [] path = "unsupported" -> AVERROR_EINVAL
      [] path = "framerate" -> AVERROR_ENOMEM
      [] path \in {"devenum", "video", "audio"} -> AVERROR_EIO
      [] path = "new_range" -> AVERROR_ENOMEM
      [] OTHER -> IF nstored > 0 THEN nc ELSE 0

\* the options when the function reaches fail2, or its return by fail1
OptionsDuring(opts, caps, path) ==
    IF path \in EarlyPaths THEN opts
    ELSE IF path \in {"framerate", "devenum"} THEN SetConstraints(opts, caps, path # "framerate")
    ELSE DefaultCodec(SetConstraints(opts, caps, TRUE))

\* the options at the return: fail1 skips the restore
OptionsAfter(opts, during, path) ==
    IF path \in EarlyPaths THEN opts ELSE RestoreOptions(during, opts)

\* the ranges as the success path hands them out
RangesOut(stored, nc) ==
    IF stored # <<>> /\ nc > 1 THEN Reorder(stored, nc)
    ELSE [nb_ranges |-> Len(stored), nb_components |-> nc, range |-> stored]

\* av_opt_query_ranges on the capabilities object for option key; nc: 3 for an image
\* size queried with AV_OPT_MULTI_COMPONENT_RANGE, else 1; path: the way the call
\* returns; nstored: the number of formats dshow_list_device_options stored
dshow_query_ranges(key, nc, caps, path, nstored) ==
    /\ caps_log # <<>>
    /\ caps_log[Len(caps_log)].ret = "0"
    /\ QueriesMade < MaxQueries
    /\ PathFeasible(path, key, caps, nc, nstored, devs)
    /\ fmt_opts' = OptionsAfter(fmt_opts, OptionsDuring(fmt_opts, caps, path), path)
    /\ query_last' =
         <<[nth |-> QueriesMade + 1, key |-> key, path |-> path,
            ret |-> QueryRet(path, nc, nstored),
            ranges_arg |-> IF path = "success" THEN <<RangesOut(Filled(nstored, nc), nc)>>
                           ELSE NULL,
            stored |-> Filled(nstored, nc), before |-> fmt_opts,
            during |-> OptionsDuring(fmt_opts, caps, path)]>>
    /\ UNCHANGED notQuery

\* one capability query on a context: the application may set options, creates the
\* capabilities once, and queries the ranges of an option
NextQuery ==
    \/ SetOptions
    \/ /\ caps_log = <<>>
       /\ \E names \in ParsedNames, enum_ok, video_ok, audio_ok, fallback_ok \in BOOLEAN :
             dshow_create_device_capabilities(names, enum_ok, video_ok, audio_ok, fallback_ok)
    \/ /\ caps_log # <<>>
       /\ QueriesMade < MaxQueries
       /\ \E key \in TableNames \cup {"video_size"}, nc \in {1, 3}, caps \in CapsQueries,
             path \in QueryPaths, nstored \in 0..MaxRanges :
             dshow_query_ranges(key, nc, caps, path, nstored)

SpecQuery == InitNew /\ [][NextQuery]_vars

(* --------------- the admission check at a constant fullness ----------- *)
\* counter values the check starts from: small ones, and ones about to wrap
StartCounters ==
    {<<0, 0>>, <<0, 1>>, <<0, 2>>, <<0, 3>>, <<0, HalfWord - 2>>,
     <<HalfWord - 1, HalfWord - 3>>}

\* an open context with some bytes buffered per stream and nothing else going on
InitAdmit ==
    /\ max_picture_buffer = ProbeBuffer
    /\ video_frame_num \in StartCounters
    /\ curbufsize \in [Streams -> 0..MaxFullness]
    /\ curbufsize[1] \in {0, MaxFullness}
    /\ pktl = <<>>
    /\ mutex = "free"
    /\ event = [k \in {0, 1} |-> FALSE]
    /\ evq = <<>>
    /\ eof = FALSE
    /\ cb_pc = [i \in Streams |-> "idle"]
    /\ cb_buf = [i \in Streams |-> [size |-> 0, time |-> 0]]
    /\ cb_snap = [i \in Streams |-> NULL]
    /\ rd_pc = "idle"
    /\ rd_nonblock = FALSE
    /\ rd_pktl = NULL
    /\ rd_pkt = NULL
    /\ rd_ret = "none"
    /\ rd_drained = FALSE
    /\ delivered = <<>>
    /\ admitted = <<>>
    /\ arrivals = 0
    /\ ub = FALSE
    /\ trapped = FALSE
    /\ probes = <<>>
    /\ is_running = 1
    /\ ctl_last = NULL
    /\ ctl_prev = NULL
    /\ phase = "open"
    /\ devs = [d \in DevTypes |-> TRUE]
    /\ h = AllHandles
    /\ acq = Ones
    /\ rel = Zeros
    /\ freed = <<>>
    /\ closes = 0
    /\ hdr_ret = "ok"
    /\ closelog = <<>>
    /\ co_init = 1
    /\ caps_log = <<>>
    /\ lookup_log = <<>>
    /\ fmt_opts = DefaultOptions
    /\ query_last = <<>>

\* one call of shall_we_drop for stream i whose frame, admitted or not, is not queued:
\* the buffered bytes stay what they are
Probe(i) ==
    /\ Len(probes) < MaxProbes
    /\ max_picture_buffer > 0
    /\ LET r == shall_we_drop(video_frame_num, curbufsize[i], max_picture_buffer)
       IN /\ video_frame_num' = r.num
          /\ probes' = Append(probes, [index |-> i, before |-> video_frame_num,
                                       num |-> r.num, drop |-> r.drop])
    /\ UNCHANGED <<max_picture_buffer, curbufsize, pktl, mutex, event, evq, eof, cb_pc,
                   cb_buf, cb_snap, rd_pc, rd_nonblock, rd_drained, rd_pktl, rd_pkt, rd_ret, delivered,
                   admitted, arrivals, ub, trapped, ctlVars, lifeVars>>

NextAdmit == \E i \in Streams : Probe(i)

SpecAdmit == InitAdmit /\ [][NextAdmit]_vars

(* ============================ properties ============================== *)
(* ---------------------- SpecPipe: queue and reader -------------------- *)
\* C1: the packets dshow_read_packet has returned so far are, in order and with none
\* skipped, the first packets the callbacks appended, both streams taken together;
\* so a frame appended after another is never returned before it.
C1_FifoOrder == IsPrefix(delivered, admitted)

\* two packets of different streams were appended and both have been read
C1_Witness ==
    /\ Len(delivered) = 2
    /\ delivered[1].stream_index # delivered[2].stream_index

\* C2: whenever nobody holds the mutex, curbufsize[i] is the sum of the sizes of the
\* queued packets of stream i, for each stream, and is not negative.
C2_CounterIsQueuedBytes ==
    mutex = "free" =>
        \A i \in Streams : curbufsize[i] = SumSizes(pktl, i) /\ curbufsize[i] >= 0

\* the mutex is free after an enqueue and a dequeue, with a packet still queued
C2_Witness ==
    /\ mutex = "free"
    /\ Len(delivered) = 1
    /\ Len(pktl) = 1
    /\ curbufsize[pktl[1].stream_index] = pktl[1].size

\* C3: once eof is latched it stays latched, no packet is returned any more, the reader
\* is never again at the mutex, the event check or the wait, and every return of
\* dshow_read_packet, the latching call's included, is the error (never EAGAIN).
C3_EofIsSticky ==
    [][/\ eof => (eof' /\ delivered' = delivered)
       /\ eof' => /\ rd_pc' \in {"idle", "while"}
                  /\ rd_pc' = "idle" => rd_ret' = "EIO"]_vars

\* eof is latched and a later call has begun with a packet queued and an event pending
C3_Witness ==
    /\ eof
    /\ rd_pc = "while"
    /\ pktl # <<>>
    /\ evq # <<>>

\* the graph's event queue holds none of the codes that end the stream
NoTerminalPending == \A k \in 1..Len(evq) : evq[k] \notin TerminalCodes

\* C4: a non-blocking call that found the list empty and no terminal code pending
\* returns EAGAIN from the event check, never reaching the wait, with the list, the
\* byte counters and the packets returned so far as they were.
C4_NonBlockingEagain ==
    [][/\ (rd_pc = "check" /\ rd_nonblock /\ NoTerminalPending /\ rd_pc' # "check") =>
             /\ rd_pc' = "idle"
             /\ rd_ret' = "EAGAIN"
             /\ pktl' = pktl
             /\ curbufsize' = curbufsize
             /\ delivered' = delivered
       /\ rd_nonblock' => rd_pc' # "wait"]_vars

\* a call has returned EAGAIN and a packet appended since then waits in the list
C4_Witness ==
    /\ rd_pc = "idle"
    /\ rd_ret = "EAGAIN"
    /\ pktl # <<>>
    /\ curbufsize[pktl[1].stream_index] > 0

\* the largest frame the device hands to the callback
LargestFrame == CHOOSE x \in FrameSizes : \A y \in FrameSizes : y <= x

\* C6: in every state the bytes buffered for a stream are below max_picture_buffer plus
\* the largest frame, because no frame is admitted once they have reached the maximum.
C6_BufferIsBounded ==
    \A i \in Streams : curbufsize[i] < max_picture_buffer + LargestFrame

\* C7: shall_we_drop never divides by a max_picture_buffer of zero: the check always
\* ends in a defined verdict.
C7_NoDivisionByZero == ~ub /\ ~trapped

\* the callback of stream i is between its WaitForSingleObject and its ReleaseMutex
CallbackInSection(i) == cb_pc[i] \in {"drop", "append", "count", "set", "release", "fail"}

\* the reader is between its WaitForSingleObject and its ReleaseMutex
ReaderInSection == rd_pc \in {"pop", "uncount", "reset"}

\* C12: the reader and a callback are never both between taking and releasing the
\* mutex (nor are the two callbacks), each of them owns the mutex while it is there,
\* and the reader does not own it while it polls the status queue or waits on the events.
C12_MutualExclusion ==
    /\ \A i \in Streams : ~(ReaderInSection /\ CallbackInSection(i))
    /\ \A i, j \in Streams : (CallbackInSection(i) /\ CallbackInSection(j)) => i = j
    /\ ReaderInSection => mutex = "reader"
    /\ \A i \in Streams : CallbackInSection(i) => mutex = Owner(i)
    /\ rd_pc \in {"check", "wait"} => mutex # "reader"

\* the reader waits on the events while a callback holds the mutex and another
\* callback waits for it
C12_Witness ==
    /\ rd_pc = "wait"
    /\ mutex = Owner(0)
    /\ cb_pc[0] = "append"
    /\ cb_pc[1] = "lock"

\* C14: a call of the callback that returns without having appended a packet, be it a
\* drop by shall_we_drop or a failed allocation, leaves the list, both byte counters
\* and the data event as it found them when it got the mutex; of the shared state
\* only the arrival counter has moved, by one.
C14_RejectedArrivalLeavesState ==
    [][\A i \in Streams :
          (/\ cb_pc[i] # "idle"
           /\ cb_pc'[i] = "idle"
           /\ admitted' = cb_snap[i][1].admitted) =>
              /\ pktl' = cb_snap[i][1].pktl
              /\ curbufsize' = cb_snap[i][1].curbufsize
              /\ event'[1] = cb_snap[i][1].data_event
              /\ video_frame_num' = NextFrameNum(cb_snap[i][1].video_frame_num)]_vars

\* a frame of stream 0 is at the fail label, refused because the stream's buffer is
\* full, with a packet in the list and the data event signaled
C14_Witness ==
    /\ cb_pc[0] = "fail"
    /\ max_picture_buffer > 0
    /\ curbufsize[0] >= max_picture_buffer
    /\ pktl # <<>>
    /\ event[1]

\* the reader's step that runs ResetEvent(ctx->event[1]) and ReleaseMutex
ReaderResets == rd_pc = "reset" /\ rd_pc' # "reset"

\* C17: every pass of the reader through its critical section ends by resetting the
\* data event, whether the list is empty or packets remain in it after the pop.
C17_ResetIsUnconditional ==
    [][ReaderResets => (~event'[1] /\ pktl' = pktl)]_vars

C17_Witness ==
    /\ rd_pc = "idle"
    /\ rd_ret = "pkt"
    /\ pktl # <<>>
    /\ ~event[1]

\* the reset as stated: with packets left after the pop the data event stays as it was
C17_ResetOnlyWhenEmpty ==
    [][(ReaderResets /\ pktl # <<>>) => event'[1] = event[1]]_vars

\* the steps of callback i that run SetEvent, and ReleaseMutex on the admit path
CallbackSignals(i) == cb_pc[i] = "set" /\ cb_pc'[i] # "set"
CallbackReleasesAfterAdmit(i) == cb_pc[i] = "release" /\ cb_pc'[i] = "idle"

\* C18: on the admit path the callback signals the data event while it still holds the
\* mutex, after the entry is linked and counted, and releases the mutex after that: the
\* data event is set by nothing else, and it is set when the mutex is released.
C18_SignalInsideSection ==
    [][/\ \A i \in Streams :
            /\ CallbackSignals(i) =>
                  /\ mutex = Owner(i) /\ mutex' = Owner(i)
                  /\ event'[1]
                  /\ pktl # <<>> /\ pktl[Len(pktl)].stream_index = i
                  /\ curbufsize[i] = SumSizes(pktl, i)
            /\ CallbackReleasesAfterAdmit(i) =>
                  (mutex = Owner(i) /\ mutex' = "free" /\ event[1] /\ event'[1])
       /\ (event'[1] /\ ~event[1]) => \E i \in Streams : CallbackSignals(i)]_vars

C18_Witness ==
    \E i \in Streams :
        /\ cb_pc[i] = "release"
        /\ mutex = Owner(i)
        /\ event[1]
        /\ pktl # <<>>

\* the order as stated: the mutex is released before the data event is signalled
C18_SignalAfterRelease ==
    [][\A i \in Streams : CallbackSignals(i) => mutex # Owner(i)]_vars

\* callback i is between linking its entry and releasing the mutex
CallbackEnqueues(i) == cb_pc[i] \in {"append", "count", "set", "release"}

\* C19: an admitted frame is enqueued in one critical section: from linking the entry
\* to releasing the mutex the callback owns the mutex and the reader is outside its own
\* section; when the callback releases, the list is the list it found with its entry
\* at the tail, the counter of its stream is the one it found plus the entry's size,
\* the other counter is as found and the data event is set; and whenever the reader
\* looks at the list under the mutex every counter is the sum of the queued sizes.
C19_EnqueueIsAtomic ==
    [][/\ \A i \in Streams :
            /\ CallbackEnqueues(i) => (mutex = Owner(i) /\ ~ReaderInSection)
            /\ CallbackReleasesAfterAdmit(i) =>
                  LET found == cb_snap[i][1]
                      p == [stream_index |-> i, size |-> cb_buf[i].size,
                            pts |-> cb_buf[i].time]
                  IN /\ pktl = Append(found.pktl, p)
                     /\ curbufsize = [found.curbufsize EXCEPT ![i] = @ + p.size]
                     /\ event[1]
                     /\ pktl' = pktl /\ curbufsize' = curbufsize /\ event' = event
       /\ rd_pc = "pop" => \A k \in Streams : curbufsize[k] = SumSizes(pktl, k)]_vars

\* the reader holds the mutex and is about to look at a list that holds an entry of
\* each stream
C19_Witness ==
    /\ rd_pc = "pop"
    /\ mutex = "reader"
    /\ Len(pktl) = 2
    /\ pktl[1].stream_index # pktl[2].stream_index
    /\ \A k \in Streams : curbufsize[k] > 0

\* the step in which dshow_read_packet returns a packet
ReturnsPacket == rd_pc # "idle" /\ rd_pc' = "idle" /\ rd_ret' = "pkt"
TerminalPending == \E k \in 1..Len(evq) : evq[k] \in TerminalCodes

\* C20: events leave the graph's queue only in the reader's event check, which runs
\* outside the mutex on a pass that found the list empty and takes every pending event;
\* a check that takes a terminal code latches eof and the call returns the error, any
\* other check leaves eof alone; so a call that returns a packet has taken no terminal
\* code, has not latched eof, and its last pass has left the pending events alone.
C20_PacketReadAndEvents ==
    [][/\ Len(evq') < Len(evq) =>
             (rd_pc = "check" /\ rd_pktl = NULL /\ mutex # "reader" /\ evq' = <<>>)
       /\ (rd_pc = "check" /\ rd_pc' # "check") =>
             IF TerminalPending
             THEN eof' /\ rd_pc' = "idle" /\ rd_ret' = "EIO"
             ELSE eof' = eof /\ rd_ret' # "EIO"
       /\ (rd_pc = "pop" /\ rd_pc' # "pop" /\ pktl # <<>>) =>
             (rd_pc' = "uncount" /\ evq' = evq /\ eof' = eof)
       /\ ReturnsPacket => (~eof /\ ~eof' /\ evq' = evq /\ rd_pktl # NULL)]_vars

\* a call that has taken events off the queue is about to return a packet, with a
\* terminal code pending that it leaves alone
C20_Witness ==
    /\ rd_pc = "reset"
    /\ rd_pktl # NULL
    /\ rd_drained
    /\ TerminalPending
    /\ ~eof

\* the statement as written: a call that returns a packet has taken no event off the queue
C20_PacketReadLeavesEvents ==
    [][ReturnsPacket => ~rd_drained]_vars

\* the steps in which a blocking call returns, leaves its event check, leaves its wait
BlockingReturns == rd_pc # "idle" /\ rd_pc' = "idle" /\ ~rd_nonblock
BlockingChecks == rd_pc = "check" /\ rd_pc' # "check" /\ ~rd_nonblock
ReaderWakes == rd_pc = "wait" /\ rd_pc' # "wait"

\* C22: a call without AVFMT_FLAG_NONBLOCK returns a packet or the end-of-stream error,
\* never EAGAIN: its event check either latches eof and returns the error or goes to
\* the wait, only such a call waits, and every wakeup leads back to the mutex and the
\* list.
C22_BlockingNeverEagain ==
    [][/\ BlockingReturns => rd_ret' \in {"pkt", "EIO"}
       /\ BlockingChecks => (rd_pc' = "wait" \/ (eof' /\ rd_pc' = "idle" /\ rd_ret' = "EIO"))
       /\ ReaderWakes => (~rd_nonblock /\ rd_pc' = "lock" /\ (event[0] \/ event[1]))]_vars

\* a blocking call that has been through its event check and its wait holds the mutex
\* again and finds a packet
C22_Witness ==
    /\ rd_pc = "pop"
    /\ ~rd_nonblock
    /\ rd_drained
    /\ mutex = "reader"
    /\ pktl # <<>>

\* C30: whenever the data event is set and the reader does not hold the mutex, the
\* list is not empty: the event is set by a callback that has linked its entry and is
\* reset by the reader before it releases the mutex. So a reader that leaves its wait
\* with the data event set finds a packet: only its own pop can empty the list.
C30_SignalMeansPacket ==
    [][/\ (event[1] /\ mutex # "reader") => pktl # <<>>
       /\ (ReaderWakes /\ event[1]) => pktl # <<>>
       /\ (pktl # <<>> /\ pktl' = <<>>) => (rd_pc = "pop" /\ mutex = "reader")
       /\ (rd_pc = "reset" /\ rd_pc' # "reset") => ~event'[1]]_vars

\* the reader, which has returned a packet and reset the data event, is in the wait of
\* its next call; the mutex is free, a packet is queued and the data event alone is set
C30_Witness ==
    /\ rd_pc = "wait"
    /\ mutex = "free"
    /\ event[1]
    /\ ~event[0]
    /\ Len(pktl) = 1
    /\ Len(delivered) = 1

\* C31: on the step where the reader latches end-of-stream the queue is empty: no
\* frame a callback admitted before the latch is still queued when eof becomes TRUE.
C31_LatchFindsQueueEmpty ==
    [][(~eof /\ eof') => pktl = <<>>]_vars

(* ---------------- SpecPipeFair: progress of the reader ---------------- *)
\* a blocking call is in progress while a packet is queued or a terminal code is pending
BlockingReadHasWork ==
    /\ rd_pc # "idle"
    /\ ~rd_nonblock
    /\ pktl # <<>> \/ ~NoTerminalPending

\* C11: with both threads scheduled, a blocking call of dshow_read_packet that is in
\* progress (in its wait or before it) while a packet is queued or a terminal code is
\* pending returns in the end, with a packet or with the end-of-stream error; no order
\* of SetEvent in the callback and ResetEvent in the reader leaves it waiting. (The
\* one way out of this is the process ending in the division trap of shall_we_drop.)
C11_BlockingReadReturns ==
    BlockingReadHasWork ~> ((rd_pc = "idle" /\ rd_ret \in {"pkt", "EIO"}) \/ trapped)

\* the reader is in its wait, the data event already reset by it, when a packet is
\* queued and the event set again
C11_Witness ==
    /\ rd_pc = "wait"
    /\ ~rd_nonblock
    /\ pktl # <<>>
    /\ event[1]
    /\ ~event[0]
    /\ \A i \in Streams : cb_pc[i] = "idle"

\* C13: every call of the callback returns: once entered for a stream it is back at
\* rest in the end, having waited for nothing but the mutex and released it on the
\* admit path and at the fail label alike.
C13_CallbackReturns ==
    \A i \in Streams : (cb_pc[i] # "idle") ~> (cb_pc[i] = "idle")

(* ------------------- SpecAdmit: the drop schedule --------------------- *)
\* the fullness shall_we_drop computed at a recorded call
ProbeFullness(p) == BufferFullness(curbufsize[p.index], max_picture_buffer)

\* the number of drops a fullness of f percent gives in four calls
ExpectedDrops(f) ==
    IF f < 62 THEN 0 ELSE IF f < 75 THEN 1 ELSE IF f < 87 THEN 2 ELSE IF f < 100 THEN 3 ELSE 4

DropsFrom(k) == Cardinality({j \in k..(k + 3) : probes[j].drop})

\* C5: any four consecutive calls of shall_we_drop made at one fullness f drop as many
\* frames as the schedule has entries <= f (0 below 62, 1 below 75, 2 below 87,
\* 3 below 100), whatever the value of the counter at the first of them.
C5_DropsPerFourCalls ==
    \A k \in 1..(Len(probes) - 3) :
        (\A j \in k..(k + 3) : ProbeFullness(probes[j]) = ProbeFullness(probes[k])) =>
            DropsFrom(k) = ExpectedDrops(ProbeFullness(probes[k]))

\* four calls at 90 percent, the counter wrapping to zero among them, three drops
C5_Witness ==
    /\ Len(probes) = 4
    /\ \A j \in 1..4 : ProbeFullness(probes[j]) = 90
    /\ probes[1].before = <<HalfWord - 1, HalfWord - 3>>
    /\ DropsFrom(1) = 3

\* the counter value one above n, as an unsigned int in two half words
OneMore(n, m) ==
    \/ (n[2] < HalfWord - 1 /\ m = <<n[1], n[2] + 1>>)
    \/ (n[2] = HalfWord - 1 /\ n[1] < HalfWord - 1 /\ m = <<n[1] + 1, 0>>)
    \/ (n = <<HalfWord - 1, HalfWord - 1>> /\ m = <<0, 0>>)

\* the schedule entry the counter value n selects
ScheduleAt(n) == dropscore[UIntMod(n, 4) + 1]

\* C23: the calls of shall_we_drop share one counter: each call, for either stream and
\* whether it drops or admits, leaves the counter one above the value the call before
\* it left, and its verdict compares the fullness with the schedule entry selected by
\* the value it leaves, not by the value it found.
C23_SharedCounter ==
    /\ \A j \in 1..Len(probes) :
          /\ OneMore(probes[j].before, probes[j].num)
          /\ j > 1 => probes[j].before = probes[j - 1].num
          /\ probes[j].drop <=> (ScheduleAt(probes[j].num) <= ProbeFullness(probes[j]))
    /\ probes # <<>> => video_frame_num = probes[Len(probes)].num

\* a call for one stream dropped, the next call, for the other stream, admitted, and
\* a third call found the counter two above the first
C23_Witness ==
    /\ Len(probes) = 3
    /\ probes[1].index # probes[2].index
    /\ probes[1].drop
    /\ ~probes[2].drop
    /\ probes[1].before = <<0, 0>>
    /\ probes[3].before = <<0, 2>>

\* the largest value of the counter, 2^32 - 1
UIntMax == <<HalfWord - 1, HalfWord - 1>>

\* the position in dropscore, from 0, the counter value n selects
ScheduleIndex(n) == UIntMod(n, ndropscores)

\* C34: from one call of shall_we_drop to the next the schedule position advances by
\* one, 3 being followed by 0, also when the counter wraps: the call that finds the
\* counter at 2^32 - 1 leaves it 0 and compares with 62, the entry after the 100 the
\* call before it compared with, and the call after it compares with 75.
C34_RotationAcrossWrap ==
    \A j \in 2..Len(probes) :
        /\ ScheduleIndex(probes[j].num) = (ScheduleIndex(probes[j - 1].num) + 1) % ndropscores
        /\ probes[j].before = UIntMax =>
              /\ probes[j].num = <<0, 0>>
              /\ ScheduleAt(probes[j - 1].num) = 100
              /\ ScheduleAt(probes[j].num) = 62
              /\ probes[j].drop <=> (62 <= ProbeFullness(probes[j]))
        /\ probes[j - 1].before = UIntMax => ScheduleAt(probes[j].num) = 75

\* the counter wrapped in the third of five calls
C34_Witness ==
    /\ Len(probes) = 5
    /\ probes[1].before = <<HalfWord - 1, HalfWord - 3>>
    /\ probes[3].before = UIntMax
    /\ probes[3].num = <<0, 0>>
    /\ probes[5].num = <<0, 2>>

(* ------------------- SpecCtl: dshow_control_message ------------------- *)
\* the device confirmed the command of request r: S_OK at once, or S_FALSE and S_OK
\* from the state query
Confirmed(r) == r.calls # <<>> /\ FinalHr(r.hr, r.hr2) = "S_OK"

\* the Run and Pause commands request r sent to the device
Commands(r) == SelectSeq(r.calls, LAMBDA c : c \in {"Run", "Pause"})

IsToggle(r) == r.type = "TOGGLE_PAUSE"

\* C8: a toggle received while running sends Pause and nothing else that changes the
\* state, and leaves is_running 0 if confirmed and 1 if not; a confirmed second toggle
\* right after a confirmed first sends Run alone and leaves is_running 1.
C8_ToggleTwice ==
    /\ (ctl_last # NULL /\ IsToggle(ctl_last[1]) /\ ctl_last[1].before = 1) =>
          /\ Commands(ctl_last[1]) = <<"Pause">>
          /\ is_running = IF Confirmed(ctl_last[1]) THEN 0 ELSE 1
    /\ (/\ ctl_prev # NULL /\ IsToggle(ctl_prev[1]) /\ ctl_prev[1].before = 1
        /\ Confirmed(ctl_prev[1])
        /\ ctl_last # NULL /\ IsToggle(ctl_last[1])) =>
          /\ ctl_last[1].before = 0
          /\ Commands(ctl_last[1]) = <<"Run">>
          /\ is_running = IF Confirmed(ctl_last[1]) THEN 1 ELSE 0

\* two confirmed toggles in a row from the running state, the second confirmed by the
\* state query
C8_Witness ==
    /\ ctl_prev # NULL /\ IsToggle(ctl_prev[1]) /\ ctl_prev[1].before = 1
    /\ Confirmed(ctl_prev[1])
    /\ ctl_last # NULL /\ IsToggle(ctl_last[1]) /\ Confirmed(ctl_last[1])
    /\ ctl_last[1].calls = <<"Run", "GetState">>
    /\ is_running = 1

\* what holds after a play, pause or toggle request whose command was not confirmed
UnconfirmedKeepsState ==
    (/\ ctl_last # NULL
     /\ ctl_last[1].type \in {"PLAY", "PAUSE", "TOGGLE_PAUSE"}
     /\ ctl_last[1].calls # <<>>
     /\ ~Confirmed(ctl_last[1])) =>
        /\ ctl_last[1].ret = "EIO"
        /\ is_running = ctl_last[1].before

\* C9: a play, pause or toggle request whose command the device did not confirm
\* returns the error and leaves is_running what it was; is_running changes only in a
\* request whose command was confirmed.
C9_UnconfirmedKeepsState ==
    [][/\ UnconfirmedKeepsState'
       /\ is_running' # is_running => Confirmed(ctl_last'[1])]_vars

\* a pause request answered S_FALSE whose state query did not return S_OK
C9_Witness ==
    /\ ctl_last # NULL
    /\ ctl_last[1].type = "PAUSE"
    /\ ctl_last[1].calls = <<"Pause", "GetState">>
    /\ ctl_last[1].hr2 = "VFW_S_STATE_INTERMEDIATE"
    /\ ctl_last[1].ret = "EIO"
    /\ is_running = 1

\* request r asks for the state the device is in: play while running, pause while not
AsksForCurrentState(r) ==
    \/ (r.type = "PLAY" /\ r.before = 1)
    \/ (r.type = "PAUSE" /\ r.before = 0)

\* request r asks for the other state
AsksForOtherState(r) ==
    \/ (r.type = "PLAY" /\ r.before = 0)
    \/ (r.type = "PAUSE" /\ r.before = 1)
    \/ r.type = "TOGGLE_PAUSE"

\* C25: a play request while running and a pause request while not running call
\* nothing on the device, return 0 and leave is_running as it was; Run or Pause is
\* called only by a request that asks for the other state, Run for 1 and Pause for 0.
C25_NoCommandWithoutChange ==
    ctl_last # NULL =>
        LET r == ctl_last[1]
        IN /\ AsksForCurrentState(r) =>
                (r.calls = <<>> /\ r.ret = "0" /\ is_running = r.before)
           /\ r.calls # <<>> =>
                /\ AsksForOtherState(r)
                /\ r.calls[1] = IF r.before = 1 THEN "Pause" ELSE "Run"
           /\ AsksForOtherState(r) => r.calls # <<>>

\* a pause request that found the device paused by the pause request before it
C25_Witness ==
    /\ ctl_prev # NULL /\ ctl_last # NULL
    /\ ctl_prev[1].type = "PAUSE" /\ ctl_prev[1].before = 1 /\ ctl_prev[1].calls = <<"Pause">>
    /\ ctl_last[1].type = "PAUSE" /\ ctl_last[1].before = 0 /\ ctl_last[1].calls = <<>>
    /\ ctl_last[1].ret = "0"
    /\ is_running = 0

\* the state queries request r made
StateQueries(r) == SelectSeq(r.calls, LAMBDA c : c = "GetState")

\* request r changed is_running to the other state
Accepted(r) == is_running # r.before

\* C26: a request that sent Run or Pause and was answered S_FALSE calls
\* IMediaControl_GetState once, after the command, and changes is_running exactly when
\* that call returns S_OK; a request whose command was answered S_OK or with a failure
\* makes no state query and changes is_running exactly when the answer was S_OK. A
\* request that is not accepted returns the error.
C26_PendingIsQueriedOnce ==
    (ctl_last # NULL /\ ctl_last[1].calls # <<>>) =>
        LET r == ctl_last[1]
        IN /\ Len(Commands(r)) = 1 /\ r.calls[1] \in {"Run", "Pause"}
           /\ r.hr = "S_FALSE" =>
                /\ Len(StateQueries(r)) = 1 /\ r.calls[2] = "GetState"
                /\ Accepted(r) <=> r.hr2 = "S_OK"
           /\ r.hr # "S_FALSE" =>
                /\ StateQueries(r) = <<>>
                /\ Accepted(r) <=> r.hr = "S_OK"
           /\ ~Accepted(r) <=> r.ret = "EIO"

\* a play request while paused: Run answered S_FALSE, the state query S_OK, accepted
C26_Witness ==
    /\ ctl_last # NULL
    /\ ctl_last[1].type = "PLAY"
    /\ ctl_last[1].before = 0
    /\ ctl_last[1].calls = <<"Run", "GetState">>
    /\ ctl_last[1].hr2 = "S_OK"
    /\ ctl_last[1].ret = "0"
    /\ is_running = 1

(* --------------- SpecDrain: the reader and event batches -------------- *)
\* the step in which the reader runs dshow_check_event_queue
ReaderChecks == rd_pc = "check" /\ rd_pc' # "check"

\* C21: the event check of a read that found the list empty takes every pending event
\* off the graph's queue, which clears the graph's event, and the read latches eof in
\* that step exactly when one of the events taken, at any position, is EC_COMPLETE,
\* EC_DEVICE_LOST or EC_ERRORABORT; eof was not latched before, and with eof latched
\* the call returns the error.
C21_DrainAndLatch ==
    [][ReaderChecks =>
          /\ rd_pktl = NULL /\ ~eof
          /\ evq' = <<>> /\ ~event'[0]
          /\ eof' <=> (\E k \in 1..Len(evq) : evq[k] \in TerminalCodes)
          /\ eof' => (rd_pc' = "idle" /\ rd_ret' = "EIO")
          /\ rd_drained' => ~eof']_vars

\* a blocking read has taken events off the queue, none of them terminal, and waits;
\* nothing is pending and eof is not latched
C21_Witness ==
    /\ rd_pc = "wait"
    /\ rd_drained
    /\ evq = <<>>
    /\ ~event[0]
    /\ ~eof

(* ------------- SpecQueueLife: where an admitted frame is -------------- *)
\* the packet the reader has taken off the list in a call that has not returned yet
InHand == IF rd_pc \in {"uncount", "reset"} /\ rd_pktl # NULL THEN rd_pkt ELSE <<>>

\* C29: the frames admitted so far are, in the order they were appended, the packets
\* returned by reads, then the one a read in progress has taken off the list, then the
\* packets a close has freed, then the packets still in the list; every admitted frame
\* has its own arrival time, so each is in exactly one of these places, none is
\* returned twice and none is both returned and freed.
C29_AdmittedIsSomewhere ==
    /\ admitted = delivered \o InHand \o freed \o pktl
    /\ \A m, n \in 1..Len(admitted) : admitted[m].pts = admitted[n].pts => m = n
    /\ phase = "closed" => pktl = <<>>

\* of two admitted frames the first was returned by a read and the second freed by
\* the close
C29_Witness ==
    /\ phase = "closed"
    /\ Len(delivered) = 1
    /\ Len(freed) = 1
    /\ Len(admitted) = 2

\* callback i holds the mutex and is about to call shall_we_drop, the maximum not zero
CallbackDecides(i) == cb_pc[i] = "drop" /\ max_picture_buffer > 0 /\ ~trapped

\* callback i can go on to append its frame
CanAdmit(i) == ENABLED (CB_ShallWeDrop(i) /\ cb_pc'[i] = "append")

\* the verdict as a function of the bytes buffered for the stream, the maximum and the
\* advanced counter
VerdictFor(cur, max, n) == dropscore[UIntMod(n, 4) + 1] <= (100 * cur) \div max

\* C24: with a non-zero maximum, whether a frame of stream i can be admitted is decided
\* by curbufsize[i], max_picture_buffer and the counter alone: the callback can go on
\* to append it exactly when the schedule entry for the advanced counter is above
\* 100 * curbufsize[i] / max rounded down, whatever the size of the frame and the
\* bytes buffered for the other stream.
C24_VerdictInputs ==
    \A i \in Streams : CallbackDecides(i) =>
        (CanAdmit(i) <=>
            ~VerdictFor(curbufsize[i], max_picture_buffer, NextFrameNum(video_frame_num)))

\* a frame of the largest size is admitted for a stream with nothing buffered while
\* the other stream's buffer is full
C24_Witness ==
    \E i \in Streams :
        /\ cb_pc[i] = "append"
        /\ cb_buf[i].size = MaxBuffer
        /\ curbufsize[i] = 0
        /\ curbufsize[1 - i] >= max_picture_buffer
        /\ max_picture_buffer > 0

\* the entry callback i was called for: its stream, the size and the time it was given
GivenTo(i) == [stream_index |-> i, size |-> cb_buf[i].size, pts |-> cb_buf[i].time]

\* C28: the list changes only by a callback linking, at the tail, an entry with the
\* stream index, the size and the time it was called with, by the reader taking the
\* head, and by the close freeing what is left; the packet the reader holds is a copy
\* of that head, and the packet a call returns is that copy: the entries already
\* queued and the copy never change.
C28_PacketIsWhatWasGiven ==
    [][/\ pktl' # pktl =>
             \/ \E i \in Streams : cb_pc[i] = "append" /\ pktl' = Append(pktl, GivenTo(i))
             \/ rd_pc = "pop" /\ pktl # <<>> /\ pktl' = Tail(pktl) /\ rd_pkt' = <<Head(pktl)>>
             \/ phase' = "closed" /\ pktl' = <<>> /\ freed' = freed \o pktl
       /\ rd_pkt' # rd_pkt => (rd_pc = "idle" \/ rd_pc = "pop")
       /\ ReturnsPacket => (rd_pkt # NULL /\ delivered' = Append(delivered, rd_pkt[1]))
       /\ delivered' # delivered => ReturnsPacket]_vars

\* the second frame handed to the callbacks, of the largest size and of the audio
\* stream, is the first packet returned
C28_Witness ==
    /\ Len(delivered) = 1
    /\ delivered[1] = [stream_index |-> 1, size |-> MaxBuffer, pts |-> 2]

\* C32: once the close has freed the queue, the byte counter of each stream is 0, the
\* sum of the sizes of the (no) entries still queued for it.
C32_CountersZeroAfterClose ==
    phase = "closed" =>
        \A i \in Streams : curbufsize[i] = 0 /\ curbufsize[i] = SumSizes(pktl, i)

(* ---------- SpecCtlQueue: what a control message leaves alone --------- *)
\* a step that is a call of dshow_control_message
ControlStep ==
    /\ ctl_last' # NULL
    /\ ctl_prev' = ctl_last
    /\ <<ctl_prev, ctl_last>>' # <<ctl_prev, ctl_last>>

\* C33: a message of a type the switch does not know returns ENOSYS, calls neither Run
\* nor Pause nor GetState and leaves is_running as it was; and a message of any type
\* leaves the list, the byte counters, both events, the pending notifications and eof
\* as they were.
C33_UnknownTypeAndFrame ==
    [][ControlStep =>
          /\ UNCHANGED <<pktl, curbufsize, event, evq, eof, video_frame_num>>
          /\ ctl_last'[1].type = "OTHER" =>
                /\ ctl_last'[1].ret = "ENOSYS"
                /\ ctl_last'[1].calls = <<>>
                /\ is_running' = is_running]_vars

\* an unknown message answered with ENOSYS while the input is paused, a frame is
\* queued and signalled, and a notification is pending
C33_Witness ==
    /\ ctl_last # NULL
    /\ ctl_last[1].type = "OTHER"
    /\ ctl_last[1].ret = "ENOSYS"
    /\ ctl_last[1].before = 0
    /\ is_running = 0
    /\ pktl # <<>>
    /\ curbufsize[0] = 1
    /\ event[1]
    /\ evq # <<>>

(* ------------- SpecCaps: COM and the device enumerator ---------------- *)
\* C35: CoUninitialize, called once by every run of dshow_read_close, has never been
\* called more often than CoInitialize, called once by every dshow_read_header and by
\* every dshow_create_device_capabilities that got as far as line 2352.
C35_ComBalanced ==
    closes <= co_init

\* C38: every call of dshow_create_device_capabilities that created the system device
\* enumerator has released it when it returns.
C38_EnumeratorReleased ==
    \A j \in 1..Len(caps_log) :
        caps_log[j].enum_created => caps_log[j].enum_released

(* --------------- SpecNames: option names and query types -------------- *)
\* C39: a lookup with a name that is not in the table answers NONE; and for every query
\* type of the table other than the two sizes, looking up the name of its component 0
\* gives the type back. (NONE has no name: that lookup would pass a null pointer.)
C39_TableRoundTrip ==
    \A j \in 1..Len(lookup_log) :
        LET e == lookup_log[j]
        IN /\ (e.op = "type" /\ e.name \notin TableNames) => e.type = "NONE"
           /\ (e.op = "back" /\ e.q \notin SizeTypes \cup {"NONE"}) =>
                 (e.name \in TableNames /\ e.type = e.q)
           /\ (e.op = "back" /\ e.q = "NONE") => e.name = NoString

\* "width" was looked up and gave NONE, and the name of FPS gave FPS back
C39_Witness ==
    /\ Len(lookup_log) = 2
    /\ lookup_log[1] = [op |-> "type", q |-> "NONE", c |-> 0, name |-> "width", type |-> "NONE"]
    /\ lookup_log[2] = [op |-> "back", q |-> "FPS", c |-> 0, name |-> "fps", type |-> "FPS"]

\* the round trip for every query type that is not a size, NONE included
C39_RoundTripAllTypes ==
    \A j \in 1..Len(lookup_log) :
        (lookup_log[j].op = "back" /\ lookup_log[j].q \notin SizeTypes) =>
            lookup_log[j].type = lookup_log[j].q

(* ----------------- SpecQuery: dshow_query_ranges ---------------------- *)
\* the queries that returned ranges of more than one component
MultiComponent(e) ==
    /\ e.ranges_arg # NULL
    /\ e.ranges_arg[1].nb_components > 1
    /\ e.stored # <<>>

\* the number of times entry x occurs in the array a
Occurrences(a, x) == Cardinality({k \in 1..Len(a) : a[k] = x})

\* C36: a query that stored R formats of C > 1 components, format after format,
\* returns them component after component: the entry of component j of format i is at
\* index R * j + i, where the example's print_option_ranges reads it; every entry
\* stored is in the result exactly once; and nb_ranges is R.
C36_ComponentMajor ==
    \A q \in 1..Len(query_last) :
        MultiComponent(query_last[q]) =>
            LET e == query_last[q]
                out == e.ranges_arg[1]
                nc == out.nb_components
                nr == Len(e.stored) \div nc
            IN /\ out.nb_ranges = nr
               /\ Len(out.range) = nr * nc
               /\ \A i \in 0..(nr - 1), j \in 0..(nc - 1) :
                     /\ out.range[out.nb_ranges * j + i + 1] = e.stored[nc * i + j + 1]
                     /\ out.range[out.nb_ranges * j + i + 1] = [range |-> i, comp |-> j]
               /\ \A n \in 1..Len(e.stored) : Occurrences(out.range, e.stored[n]) = 1
               /\ e.ret = nc

\* a frame_size query with the multi-component flag returned three formats
C36_Witness ==
    /\ Len(query_last) = 1
    /\ query_last[1].key = "frame_size"
    /\ query_last[1].ret = 3
    /\ query_last[1].ranges_arg # NULL
    /\ query_last[1].ranges_arg[1].nb_ranges = 3
    /\ query_last[1].ranges_arg[1].range[2] = [range |-> 1, comp |-> 0]
    /\ query_last[1].stored[2] = [range |-> 0, comp |-> 1]

\* the format options the property is about
Listed(o) ==
    <<o.sample_size, o.sample_rate, o.channels, o.video_codec_id, o.pixel_format,
      o.requested_width, o.requested_height, o.framerate>>

\* C37: whatever path dshow_query_ranges returns by, sample_size, sample_rate,
\* channels, video_codec_id, pixel_format, requested_width, requested_height and
\* framerate of the context are what they were before the call; and a call that
\* failed returned a negative code and left *ranges_arg NULL, one that succeeded
\* returned the ranges and no negative code.
C37_OptionsRestored ==
    /\ \A q \in 1..Len(query_last) :
          /\ query_last[q].path # "success" =>
                (query_last[q].ret < 0 /\ query_last[q].ranges_arg = NULL)
          /\ query_last[q].path = "success" =>
                (query_last[q].ret >= 0 /\ query_last[q].ranges_arg # NULL)
    /\ query_last # <<>> =>
          Listed(fmt_opts) = Listed(query_last[Len(query_last)].before)

\* a query with all constraints set on a context with user options failed while the
\* formats of the video device were listed, the options being those of the query then
C37_Witness ==
    /\ Len(query_last) = 1
    /\ query_last[1].path = "video"
    /\ query_last[1].before = UserOptions
    /\ query_last[1].during.framerate = "dummy"
    /\ query_last[1].during.requested_width = 1280
    /\ fmt_opts.framerate = "30"
    /\ fmt_opts.requested_width = 640

(* ------------------ SpecLife: open, capture and close ----------------- *)
\* C10: once the input is closed, after one or two runs of dshow_read_close on whatever
\* dshow_read_header had acquired, every handle is null, every reference ever acquired
\* has been released exactly once, the list is empty and every packet that was queued
\* has been freed exactly once.
C10_CloseReleasesAll ==
    phase = "closed" =>
        /\ h = NoHandles
        /\ \A k \in Handles : rel[k] = acq[k]
        /\ pktl = <<>>
        /\ freed = admitted

\* C15: when dshow_read_header has returned an error it has run dshow_read_close:
\* every handle is null, every reference it acquired has been released, and is_running
\* is 0; when it has returned 0 the input is open with is_running 1.
C15_HeaderFailureClosesAll ==
    /\ hdr_ret = "error" =>
          /\ closes >= 1
          /\ h = NoHandles
          /\ \A k \in Handles : rel[k] = acq[k]
          /\ is_running = 0
    /\ (hdr_ret = "ok" /\ closes = 0) => (phase = "open" /\ is_running = 1)

\* the entries of a close log by what they do
StopCalls == {<<"stop", 0>>}
BuilderReleases == {Slot("graph_builder2", d) : d \in DevTypes}
LaterReleases ==
    ((DevKinds \ {"graph_builder2"}) \X DevTypes)
        \cup {Single("control"), Single("media_event"), Single("graph")}
SyncCloses == {Single("mutex"), <<"event", 0>>, <<"event", 1>>}
IsFree(e) == e[1] = "free"

\* in log, every entry of A comes before every entry of B
AllBefore(log, A, B) ==
    \A m, n \in 1..Len(log) : (log[m] \in A /\ log[n] \in B) => m < n

FreesAfter(log, A) ==
    \A m, n \in 1..Len(log) : (log[m] \in A /\ IsFree(log[n])) => m < n

FreesBefore(log, B) ==
    \A m, n \in 1..Len(log) : (IsFree(log[m]) /\ log[n] \in B) => m < n

\* C16: in one run of dshow_read_close the two graph_builder2 references are released
\* before IMediaControl_Stop; Stop comes before the release of the control, the media
\* event, the graph, the pins and the filters; the mutex and both events are closed
\* after all of these and before the first queued packet is freed.
C16_CloseOrder ==
    /\ AllBefore(closelog, BuilderReleases, StopCalls)
    /\ AllBefore(closelog, StopCalls, LaterReleases)
    /\ AllBefore(closelog, LaterReleases, SyncCloses)
    /\ FreesAfter(closelog, SyncCloses)

C16_Witness ==
    /\ phase = "closed"
    /\ \E n \in 1..Len(closelog) : closelog[n] \in StopCalls
    /\ \E n \in 1..Len(closelog) : closelog[n] \in BuilderReleases
    /\ \E n \in 1..Len(closelog) : closelog[n] \in SyncCloses
    /\ \E n \in 1..Len(closelog) : IsFree(closelog[n])

\* the order as stated: Stop before every handle release, every free before the
\* mutex and the events are closed
C16_StatedOrder ==
    /\ AllBefore(closelog, StopCalls, BuilderReleases \cup LaterReleases)
    /\ FreesBefore(closelog, SyncCloses)

\* C27: once the input is closed the run state is the stopped one: is_running is 0.
C27_StoppedAfterClose ==
    phase = "closed" => is_running = 0

====
